---- MODULE Spec2Model ----
(***************************************************************************)
(* The stage registry of the USD MCP server (StageRegistry in              *)
(* usd_mcp_server/core/registry.py, duplicated in usd_mcp_server.py), the  *)
(* maintenance loop that calls it, the tools built on it (the handle-based *)
(* save and close tools, create_stage, open_stage, define_prim,            *)
(* add_rigid_body_by_id, create_mesh_by_id, the status tools, and the      *)
(* path-based analyze_stage, create_reference and close_stage with their   *)
(* stage_cache and its cleanup_stage_cache), and check_integrity.py, which *)
(* compares the signatures of the path-based and handle-based tools.       *)
(*                                                                         *)
(* A document is the set of edits made to it: layer holds the documents in *)
(* memory, disk the files.                                                 *)
(*                                                                         *)
(* Each thread is at a position pc[t].  A registry method is one action:   *)
(* it waits for the registry lock, runs its body and releases the lock.    *)
(* The lock is a threading.Lock: it has no owner-reentrancy, so a thread   *)
(* that calls a registry method while it holds the lock waits for itself.  *)
(***************************************************************************)
EXTENDS Integers, Sequences, FiniteSets, TLC

\* ---------------------------------------------------------------- bounds
\* StageRegistry(max_cache_size=...): the configured cap (10 in the source).
max_cache_size == 2
\* number of handles uuid4 may issue in a run
MaxIds == 3
\* largest value time.time() reaches in a run
MaxTime == 2

Workers == {"w1", "w2"}
\* w1 serves tool calls and calls every registry method; w2 runs beside it
\* and makes only the calls that change the registry (register_stage,
\* mark_as_modified, unregister_stage).
ToolThreads == {"w1"}
\* the values of the mass parameter: negative, zero, the default 1.0
Masses == {-1, 0, 1}
\* number of changes the tools make to documents in a run
MaxEdits == 2
Maint == "maint"
Threads == Workers \cup {Maint}
NoThread == "none"
Ids == 1..MaxIds
Paths == {"a.usda"}
\* os.path.abspath(file_path), the working directory being "/"
AbsPath(file_path) == IF file_path = "a.usda" THEN "/a.usda" ELSE file_path
\* the paths a tool is called with: a relative and an absolute path of one file
ToolPaths == Paths \cup {AbsPath(p) : p \in Paths}
\* the files the path-based tools are called with
CachePaths == {"/a.usda", "/b.usda", "/c.usda"}
NoStage == 0

VARIABLES
    _stages,              \* stage_id -> Usd.Stage (the identity of the document)
    _stage_file_paths,    \* stage_id -> file_path
    _stage_access_times,  \* stage_id -> last access time
    _stage_modified,      \* stage_id -> is_modified
    _lock,                \* the thread holding self._lock, or NoThread
    now,                  \* the last value time.time() returned
    next_id,              \* number of handles issued so far (uuid4 never repeats)
    unloaded,             \* documents on which Unload() was called
    pc,                   \* position of each thread
    frame,                \* locals of the call each thread is in
    lastOp,               \* the registry call that completed last, with its outcome
    toolResult,           \* the envelope a tool call returned in the last step, if one did
    stage_cache,          \* registry.py's path-keyed dict: abs_path -> Usd.Stage
    integrity,            \* check_integrity.py: where compare_functions is, and its issues
    layer,                \* abs_path -> content of the root layer held in memory
    disk,                 \* abs_path -> content of the file, for the files that exist
    next_edit,            \* number of changes made to documents so far
    stage_access_times,   \* the path cache's dict abs_path -> time: its items in dict order
    stage_modified        \* the path cache's dict abs_path -> modified

regvars == <<_stages, _stage_file_paths, _stage_access_times, _stage_modified>>
vars == <<_stages, _stage_file_paths, _stage_access_times, _stage_modified,
          _lock, now, next_id, unloaded, pc, frame, lastOp, toolResult, stage_cache,
          integrity, layer, disk, next_edit, stage_access_times, stage_modified>>

\* ------------------------------------------------------------- helpers
Live == DOMAIN _stages

Remove(f, k) == [x \in (DOMAIN f) \ {k} |-> f[x]]
Put(f, k, v) == [x \in (DOMAIN f) \cup {k} |-> IF x = k THEN v ELSE f[x]]

\* dict.get(stage_id, False) on _stage_modified
ModifiedGet(h) == IF h \in DOMAIN _stage_modified THEN _stage_modified[h] ELSE FALSE

NoStats == [total_stages |-> 0, max_cache_size |-> 0, modified_stages |-> 0,
            stage_ids |-> {}]
\* the data of a status tool's result; empty in every other result
NoReport == [uptime |-> 0, stats |-> NoStats, stage_details |-> {},
             cache |-> [stages_cached |-> 0, max_cache_size |-> 0], stages |-> {}]

NoFrame == [h |-> NoStage, sim |-> FALSE, to_remove |-> <<>>, caller |-> "none",
            file_path |-> "", size |-> 0, create_if_missing |-> FALSE, mass |-> 1,
            stats |-> NoStats, details |-> {}]
\* check_integrity.py is not running
IntegrityIdle == [pair |-> 0, phase |-> "idle", idx |-> 0, issues |-> {}]

NoResult == [tool |-> "none", ok |-> TRUE, message |-> "", error_code |-> "",
             data |-> {}, h |-> NoStage, cause |-> "none", report |-> NoReport]

\* The record of the registry call made by the last step: the method, its
\* stage_id and save_if_modified arguments, whether the handle was registered
\* and modified when the call began, what happened to the flush ("none": no
\* flush was invoked; "ok"; "failed": it raised) and the value returned
\* ("blocked": the call has not returned, it waits for the lock).  after_get,
\* set when a registration triggers an eviction, is the handle the registry
\* call just before it was a successful get_stage of, if it was one.  stats
\* is the dict returned when the call was get_stats.
Done(op, h, sim, flush, ret) ==
    [op |-> op, h |-> h, sim |-> sim,
     was_live |-> h \in Live, was_modified |-> ModifiedGet(h),
     flush |-> flush, ret |-> ret, after_get |-> NoStage, stats |-> NoStats]

\* a step that calls no registry method
NoCall == Done("none", NoStage, FALSE, "none", "None")

\* a document opened by a path-based call (it is not registered)
TransientDoc == MaxIds + 1

\* time.time(): the clock does not run backwards; two reads may share a tick.
Times == {n \in {now, now + 1} : n <= MaxTime}

\* ------------------------------------------------ StageRegistry methods
\* Each operator is the body of one method under "with self._lock": it is
\* enabled only when the lock is free, and leaves it free unless the body
\* calls another registry method (it then still holds the lock).  The caller's
\* action moves pc.

\* sorted(self._stage_access_times.keys(), key=access time): Python's sort is
\* stable, so equal times keep the dict's insertion order, which is the order
\* of registration (handles are numbered in that order here).
Before(a, b) ==
    \/ _stage_access_times[a] < _stage_access_times[b]
    \/ _stage_access_times[a] = _stage_access_times[b] /\ a < b

RECURSIVE SortedIds(_)
SortedIds(S) ==
    IF S = {} THEN <<>>
    ELSE LET m == CHOOSE x \in S : \A y \in S \ {x} : Before(x, y)
         IN <<m>> \o SortedIds(S \ {m})

\* sorted_ids[:num_to_remove]
stages_to_remove ==
    LET sorted_ids == SortedIds(DOMAIN _stage_access_times)
        num_to_remove == Cardinality(DOMAIN _stages) - max_cache_size
    IN SubSeq(sorted_ids, 1, num_to_remove)

\* register_stage with the cap test off by one (> max_cache_size + 1)
register_stage_cap_off_by_one(t, file_path, tm) ==
    LET stage_id == next_id + 1 IN
    /\ _lock = NoThread
    /\ next_id < MaxIds
    /\ next_id' = stage_id
    /\ _stages' = Put(_stages, stage_id, stage_id)
    /\ _stage_file_paths' = Put(_stage_file_paths, stage_id, file_path)
    /\ _stage_access_times' = Put(_stage_access_times, stage_id, tm)
    /\ _stage_modified' = Put(_stage_modified, stage_id, FALSE)
    /\ now' = tm
    /\ IF Cardinality(DOMAIN _stages') > max_cache_size + 1
       THEN /\ _lock' = t
            /\ lastOp' = Done("register_stage", stage_id, FALSE, "none", "blocked")
       ELSE /\ _lock' = NoThread
            /\ lastOp' = Done("register_stage", stage_id, FALSE, "none", "id")
    /\ UNCHANGED unloaded

\* register_stage that takes the smallest handle not registered at the moment
\* instead of a fresh uuid4
register_stage_reuse_id(t, file_path, tm) ==
    LET stage_id == CHOOSE x \in Ids \ DOMAIN _stages :
                        \A y \in Ids \ DOMAIN _stages : x <= y IN
    /\ _lock = NoThread
    /\ next_id < MaxIds
    /\ next_id' = next_id + 1
    /\ _stages' = Put(_stages, stage_id, stage_id)
    /\ _stage_file_paths' = Put(_stage_file_paths, stage_id, file_path)
    /\ _stage_access_times' = Put(_stage_access_times, stage_id, tm)
    /\ _stage_modified' = Put(_stage_modified, stage_id, FALSE)
    /\ now' = tm
    /\ IF Cardinality(DOMAIN _stages') > max_cache_size
       THEN /\ _lock' = t
            /\ lastOp' = Done("register_stage", stage_id, FALSE, "none", "blocked")
       ELSE /\ _lock' = NoThread
            /\ lastOp' = Done("register_stage", stage_id, FALSE, "none", "id")
    /\ UNCHANGED unloaded

\* uuid.uuid4(): a 122-bit random value, taken as never repeating; the handles
\* are numbered in the order they are issued.
register_stage_epoch_time(t, file_path, tm) ==
    LET stage_id == next_id + 1 IN
    /\ _lock = NoThread
    /\ next_id < MaxIds
    /\ next_id' = stage_id
    /\ _stages' = Put(_stages, stage_id, stage_id)
    /\ _stage_file_paths' = Put(_stage_file_paths, stage_id, file_path)
    /\ _stage_access_times' = Put(_stage_access_times, stage_id, 0)
    /\ _stage_modified' = Put(_stage_modified, stage_id, FALSE)
    /\ now' = tm
    /\ IF Cardinality(DOMAIN _stages') > max_cache_size
       THEN /\ _lock' = t
            /\ lastOp' = [Done("register_stage", stage_id, FALSE, "none", "blocked")
                            EXCEPT !.after_get =
                                IF lastOp.op = "get_stage" /\ lastOp.ret = "stage"
                                THEN lastOp.h ELSE NoStage]
       ELSE /\ _lock' = NoThread
            /\ lastOp' = Done("register_stage", stage_id, FALSE, "none", "id")
    /\ UNCHANGED unloaded

register_stage(t, file_path, tm) ==
    LET stage_id == next_id + 1 IN
    /\ _lock = NoThread
    /\ next_id < MaxIds
    /\ next_id' = stage_id
    /\ _stages' = Put(_stages, stage_id, stage_id)
    /\ _stage_file_paths' = Put(_stage_file_paths, stage_id, file_path)
    /\ _stage_access_times' = Put(_stage_access_times, stage_id, tm)
    /\ _stage_modified' = Put(_stage_modified, stage_id, FALSE)
    /\ now' = tm
    /\ IF Cardinality(DOMAIN _stages') > max_cache_size
       THEN \* self.perform_cache_cleanup() is called with the lock held
            /\ _lock' = t
            /\ lastOp' = [Done("register_stage", stage_id, FALSE, "none", "blocked")
                            EXCEPT !.after_get =
                                IF lastOp.op = "get_stage" /\ lastOp.ret = "stage"
                                THEN lastOp.h ELSE NoStage]
       ELSE /\ _lock' = NoThread
            /\ lastOp' = Done("register_stage", stage_id, FALSE, "none", "id")
    /\ UNCHANGED unloaded

\* get_stage that returns the stage without updating its access time
get_stage_no_refresh(t, stage_id, tm) ==
    /\ _lock = NoThread
    /\ lastOp' = Done("get_stage", stage_id, FALSE, "none",
                      IF stage_id \in DOMAIN _stages THEN "stage" ELSE "None")
    /\ UNCHANGED <<regvars, now, _lock, next_id, unloaded>>

get_stage_reset_time(t, stage_id, tm) ==
    /\ _lock = NoThread
    /\ IF stage_id \in DOMAIN _stages
       THEN /\ _stage_access_times' = [_stage_access_times EXCEPT ![stage_id] = 0]
            /\ now' = tm
            /\ lastOp' = Done("get_stage", stage_id, FALSE, "none", "stage")
       ELSE /\ UNCHANGED <<_stage_access_times, now>>
            /\ lastOp' = Done("get_stage", stage_id, FALSE, "none", "None")
    /\ UNCHANGED <<_stages, _stage_file_paths, _stage_modified, _lock, next_id, unloaded>>

get_stage(t, stage_id, tm) ==
    /\ _lock = NoThread
    /\ IF stage_id \in DOMAIN _stages
       THEN /\ _stage_access_times' = [_stage_access_times EXCEPT ![stage_id] = tm]
            /\ now' = tm
            /\ lastOp' = Done("get_stage", stage_id, FALSE, "none", "stage")
       ELSE /\ UNCHANGED <<_stage_access_times, now>>
            /\ lastOp' = Done("get_stage", stage_id, FALSE, "none", "None")
    /\ UNCHANGED <<_stages, _stage_file_paths, _stage_modified, _lock, next_id, unloaded>>

get_stage_path(t, stage_id) ==
    /\ _lock = NoThread
    /\ lastOp' = Done("get_stage_path", stage_id, FALSE, "none",
                      IF stage_id \in DOMAIN _stage_file_paths
                      THEN _stage_file_paths[stage_id] ELSE "None")
    /\ UNCHANGED <<regvars, _lock, now, next_id, unloaded>>

\* mark_as_modified without the "stage_id in self._stages" test
mark_as_modified_unchecked(t, stage_id) ==
    /\ _lock = NoThread
    /\ _stage_modified' = Put(_stage_modified, stage_id, TRUE)
    /\ lastOp' = Done("mark_as_modified", stage_id, FALSE, "none", "True")
    /\ UNCHANGED <<_stages, _stage_file_paths, _stage_access_times, _lock, now,
                   next_id, unloaded>>

\* mark_as_modified that flags every entry
mark_as_modified_every_entry(t, stage_id) ==
    /\ _lock = NoThread
    /\ IF stage_id \in DOMAIN _stages
       THEN /\ _stage_modified' = [k \in DOMAIN _stage_modified |-> TRUE]
            /\ lastOp' = Done("mark_as_modified", stage_id, FALSE, "none", "True")
       ELSE /\ UNCHANGED _stage_modified
            /\ lastOp' = Done("mark_as_modified", stage_id, FALSE, "none", "False")
    /\ UNCHANGED <<_stages, _stage_file_paths, _stage_access_times, _lock, now,
                   next_id, unloaded>>

mark_as_modified(t, stage_id) ==
    /\ _lock = NoThread
    /\ IF stage_id \in DOMAIN _stages
       THEN /\ _stage_modified' = [_stage_modified EXCEPT ![stage_id] = TRUE]
            /\ lastOp' = Done("mark_as_modified", stage_id, FALSE, "none", "True")
       ELSE /\ UNCHANGED _stage_modified
            /\ lastOp' = Done("mark_as_modified", stage_id, FALSE, "none", "False")
    /\ UNCHANGED <<_stages, _stage_file_paths, _stage_access_times, _lock, now,
                   next_id, unloaded>>

is_modified(t, stage_id) ==
    /\ _lock = NoThread
    /\ lastOp' = Done("is_modified", stage_id, FALSE, "none",
                      IF ModifiedGet(stage_id) THEN "True" ELSE "False")
    /\ UNCHANGED <<regvars, _lock, now, next_id, unloaded>>

\* save_stage that flushes every registered stage, modified or not
save_stage_always_flush(t, stage_id, flush_ok) ==
    /\ _lock = NoThread
    /\ IF stage_id \in DOMAIN _stages
       THEN IF flush_ok
            THEN /\ _stage_modified' = [_stage_modified EXCEPT ![stage_id] = FALSE]
                 /\ lastOp' = Done("save_stage", stage_id, FALSE, "ok", "True")
            ELSE /\ UNCHANGED _stage_modified
                 /\ lastOp' = Done("save_stage", stage_id, FALSE, "failed", "False")
       ELSE /\ UNCHANGED _stage_modified
            /\ lastOp' = Done("save_stage", stage_id, FALSE, "none", "False")
    /\ UNCHANGED <<_stages, _stage_file_paths, _stage_access_times, _lock, now,
                   next_id, unloaded>>

\* save_stage that clears the modified flag before the flush, so that the
\* flag stays cleared when the flush raises
save_stage_clear_first(t, stage_id, flush_ok) ==
    /\ _lock = NoThread
    /\ IF stage_id \in DOMAIN _stages /\ ModifiedGet(stage_id)
       THEN /\ _stage_modified' = [_stage_modified EXCEPT ![stage_id] = FALSE]
            /\ lastOp' = IF flush_ok
                         THEN Done("save_stage", stage_id, FALSE, "ok", "True")
                         ELSE Done("save_stage", stage_id, FALSE, "failed", "False")
       ELSE /\ UNCHANGED _stage_modified
            /\ lastOp' = Done("save_stage", stage_id, FALSE, "none", "False")
    /\ UNCHANGED <<_stages, _stage_file_paths, _stage_access_times, _lock, now,
                   next_id, unloaded>>

\* save_stage whose "except" clears the flag and returns True as well
save_stage_swallow_failure(t, stage_id, flush_ok) ==
    /\ _lock = NoThread
    /\ IF stage_id \in DOMAIN _stages /\ ModifiedGet(stage_id)
       THEN /\ _stage_modified' = [_stage_modified EXCEPT ![stage_id] = FALSE]
            /\ lastOp' = Done("save_stage", stage_id, FALSE,
                              IF flush_ok THEN "ok" ELSE "failed", "True")
       ELSE /\ UNCHANGED _stage_modified
            /\ lastOp' = Done("save_stage", stage_id, FALSE, "none", "False")
    /\ UNCHANGED <<_stages, _stage_file_paths, _stage_access_times, _lock, now,
                   next_id, unloaded>>

\* flush_ok: whether GetRootLayer().Save() returns (TRUE) or raises (FALSE)
\* save_stage that also refreshes the access time of the stage it saved
save_stage_refresh(t, stage_id, flush_ok) ==
    /\ _lock = NoThread
    /\ IF stage_id \in DOMAIN _stages /\ ModifiedGet(stage_id)
       THEN IF flush_ok
            THEN /\ _stage_modified' = [_stage_modified EXCEPT ![stage_id] = FALSE]
                 /\ _stage_access_times' = [_stage_access_times EXCEPT ![stage_id] = now]
                 /\ lastOp' = Done("save_stage", stage_id, FALSE, "ok", "True")
            ELSE /\ UNCHANGED <<_stage_modified, _stage_access_times>>
                 /\ lastOp' = Done("save_stage", stage_id, FALSE, "failed", "False")
       ELSE /\ UNCHANGED <<_stage_modified, _stage_access_times>>
            /\ lastOp' = Done("save_stage", stage_id, FALSE, "none", "False")
    /\ UNCHANGED <<_stages, _stage_file_paths, _lock, now, next_id, unloaded>>

save_stage(t, stage_id, flush_ok) ==
    /\ _lock = NoThread
    /\ IF stage_id \in DOMAIN _stages /\ ModifiedGet(stage_id)
       THEN IF flush_ok
            THEN /\ _stage_modified' = [_stage_modified EXCEPT ![stage_id] = FALSE]
                 /\ lastOp' = Done("save_stage", stage_id, FALSE, "ok", "True")
            ELSE /\ UNCHANGED _stage_modified
                 /\ lastOp' = Done("save_stage", stage_id, FALSE, "failed", "False")
       ELSE /\ UNCHANGED _stage_modified
            /\ lastOp' = Done("save_stage", stage_id, FALSE, "none", "False")
    /\ UNCHANGED <<_stages, _stage_file_paths, _stage_access_times, _lock, now,
                   next_id, unloaded>>

\* unregister_stage that never saves
unregister_stage_no_flush(t, stage_id, save_if_modified, flush_ok) ==
    /\ _lock = NoThread
    /\ IF stage_id \in DOMAIN _stages
       THEN /\ unloaded' = unloaded \cup {_stages[stage_id]}
            /\ _stages' = Remove(_stages, stage_id)
            /\ _stage_file_paths' = Remove(_stage_file_paths, stage_id)
            /\ _stage_access_times' = Remove(_stage_access_times, stage_id)
            /\ _stage_modified' = Remove(_stage_modified, stage_id)
            /\ lastOp' = Done("unregister_stage", stage_id, save_if_modified,
                              "none", "True")
       ELSE /\ UNCHANGED <<regvars, unloaded>>
            /\ lastOp' = Done("unregister_stage", stage_id, save_if_modified,
                              "none", "False")
    /\ UNCHANGED <<_lock, now, next_id>>

\* unregister_stage without the try/except around the flush: a flush that
\* raises leaves the entry in place and the exception reaches the caller
unregister_stage_flush_uncaught(t, stage_id, save_if_modified, flush_ok) ==
    /\ _lock = NoThread
    /\ IF stage_id \in DOMAIN _stages
       THEN IF save_if_modified /\ ModifiedGet(stage_id) /\ ~flush_ok
            THEN /\ UNCHANGED <<regvars, unloaded>>
                 /\ lastOp' = Done("unregister_stage", stage_id, save_if_modified,
                                   "failed", "raised")
            ELSE /\ unloaded' = unloaded \cup {_stages[stage_id]}
                 /\ _stages' = Remove(_stages, stage_id)
                 /\ _stage_file_paths' = Remove(_stage_file_paths, stage_id)
                 /\ _stage_access_times' = Remove(_stage_access_times, stage_id)
                 /\ _stage_modified' = Remove(_stage_modified, stage_id)
                 /\ lastOp' = Done("unregister_stage", stage_id, save_if_modified,
                                   IF save_if_modified /\ ModifiedGet(stage_id)
                                   THEN "ok" ELSE "none",
                                   "True")
       ELSE /\ UNCHANGED <<regvars, unloaded>>
            /\ lastOp' = Done("unregister_stage", stage_id, save_if_modified,
                              "none", "False")
    /\ UNCHANGED <<_lock, now, next_id>>

\* unregister_stage without "del self._stage_modified[stage_id]"
unregister_stage_keep_flag(t, stage_id, save_if_modified, flush_ok) ==
    /\ _lock = NoThread
    /\ IF stage_id \in DOMAIN _stages
       THEN /\ unloaded' = unloaded \cup {_stages[stage_id]}
            /\ _stages' = Remove(_stages, stage_id)
            /\ _stage_file_paths' = Remove(_stage_file_paths, stage_id)
            /\ _stage_access_times' = Remove(_stage_access_times, stage_id)
            /\ UNCHANGED _stage_modified
            /\ lastOp' = Done("unregister_stage", stage_id, save_if_modified,
                              IF save_if_modified /\ ModifiedGet(stage_id)
                              THEN (IF flush_ok THEN "ok" ELSE "failed")
                              ELSE "none",
                              "True")
       ELSE /\ UNCHANGED <<regvars, unloaded>>
            /\ lastOp' = Done("unregister_stage", stage_id, save_if_modified,
                              "none", "False")
    /\ UNCHANGED <<_lock, now, next_id>>

unregister_stage_keep_path(t, stage_id, save_if_modified, flush_ok) ==
    /\ _lock = NoThread
    /\ IF stage_id \in DOMAIN _stages
       THEN /\ unloaded' = unloaded \cup {_stages[stage_id]}
            /\ _stages' = Remove(_stages, stage_id)
            /\ UNCHANGED _stage_file_paths
            /\ _stage_access_times' = Remove(_stage_access_times, stage_id)
            /\ _stage_modified' = Remove(_stage_modified, stage_id)
            /\ lastOp' = Done("unregister_stage", stage_id, save_if_modified,
                              IF save_if_modified /\ ModifiedGet(stage_id)
                              THEN (IF flush_ok THEN "ok" ELSE "failed")
                              ELSE "none",
                              "True")
       ELSE /\ UNCHANGED <<regvars, unloaded>>
            /\ lastOp' = Done("unregister_stage", stage_id, save_if_modified,
                              "none", "False")
    /\ UNCHANGED <<_lock, now, next_id>>

unregister_stage_flush_unasked(t, stage_id, save_if_modified, flush_ok) ==
    /\ _lock = NoThread
    /\ IF stage_id \in DOMAIN _stages
       THEN /\ unloaded' = unloaded \cup {_stages[stage_id]}
            /\ _stages' = Remove(_stages, stage_id)
            /\ _stage_file_paths' = Remove(_stage_file_paths, stage_id)
            /\ _stage_access_times' = Remove(_stage_access_times, stage_id)
            /\ _stage_modified' = Remove(_stage_modified, stage_id)
            /\ lastOp' = Done("unregister_stage", stage_id, save_if_modified,
                              IF ModifiedGet(stage_id)
                              THEN (IF flush_ok THEN "ok" ELSE "failed")
                              ELSE "none",
                              "True")
       ELSE /\ UNCHANGED <<regvars, unloaded>>
            /\ lastOp' = Done("unregister_stage", stage_id, save_if_modified,
                              "none", "False")
    /\ UNCHANGED <<_lock, now, next_id>>

unregister_stage(t, stage_id, save_if_modified, flush_ok) ==
    /\ _lock = NoThread
    /\ IF stage_id \in DOMAIN _stages
       THEN /\ unloaded' = unloaded \cup {_stages[stage_id]}
            /\ _stages' = Remove(_stages, stage_id)
            /\ _stage_file_paths' = Remove(_stage_file_paths, stage_id)
            /\ _stage_access_times' = Remove(_stage_access_times, stage_id)
            /\ _stage_modified' = Remove(_stage_modified, stage_id)
            /\ lastOp' = Done("unregister_stage", stage_id, save_if_modified,
                              IF save_if_modified /\ ModifiedGet(stage_id)
                              THEN (IF flush_ok THEN "ok" ELSE "failed")
                              ELSE "none",
                              "True")
       ELSE /\ UNCHANGED <<regvars, unloaded>>
            /\ lastOp' = Done("unregister_stage", stage_id, save_if_modified,
                              "none", "False")
    /\ UNCHANGED <<_lock, now, next_id>>

perform_cache_cleanup(t) ==
    /\ _lock = NoThread
    /\ IF Cardinality(DOMAIN _stages) <= max_cache_size
       THEN /\ _lock' = NoThread
            /\ lastOp' = Done("perform_cache_cleanup", NoStage, FALSE, "none", "0")
       ELSE \* the loop calls self.unregister_stage(...) with the lock held
            /\ _lock' = t
            /\ lastOp' = Done("perform_cache_cleanup", NoStage, FALSE, "none", "blocked")
    /\ UNCHANGED <<regvars, now, next_id, unloaded>>

\* the dict get_stats builds
Stats ==
    [total_stages |-> Cardinality(DOMAIN _stages),
     max_cache_size |-> max_cache_size,
     modified_stages |-> Cardinality({k \in DOMAIN _stage_modified : _stage_modified[k]}),
     stage_ids |-> DOMAIN _stages]

\* get_stats whose modified_stages is len(self._stage_modified)
get_stats_counts_every_flag(t) ==
    /\ _lock = NoThread
    /\ lastOp' = [Done("get_stats", NoStage, FALSE, "none", "stats") EXCEPT
                    !.stats = [Stats EXCEPT
                                !.modified_stages = Cardinality(DOMAIN _stage_modified)]]
    /\ UNCHANGED <<regvars, _lock, now, next_id, unloaded>>

get_stats(t) ==
    /\ _lock = NoThread
    /\ lastOp' = [Done("get_stats", NoStage, FALSE, "none", "stats") EXCEPT
                    !.stats = Stats]
    /\ UNCHANGED <<regvars, _lock, now, next_id, unloaded>>

\* get_all_stage_ids: list(self._stages.keys()), taken under the lock
get_all_stage_ids(t) ==
    /\ _lock = NoThread
    /\ lastOp' = [Done("get_all_stage_ids", NoStage, FALSE, "none", "ids") EXCEPT
                    !.stats = [NoStats EXCEPT !.stage_ids = DOMAIN _stages]]
    /\ UNCHANGED <<regvars, _lock, now, next_id, unloaded>>

\* ------------------------------------------------- documents and files
\* A stage opened from a path holds the root layer of that path; the engine
\* keeps one layer per path in memory, shared by every stage opened from it,
\* for as long as some stage holds it.  The content of a layer or of a file
\* is the set of the changes (numbered in the order they were made) it has.

\* positions at which a tool call holds the stage get_stage returned to it
StagePositions == {"save_save", "save_path", "dp_define", "dp_mark", "rb_add", "rb_mark",
                   "cm_path", "cm_define", "cm_mark", "cm_save"}

\* after this step, a stage of this path is held by a registry entry, by
\* stage_cache or by a tool call in progress
HeldNext(p) ==
    \/ \E h \in DOMAIN _stage_file_paths' : AbsPath(_stage_file_paths'[h]) = p
    \/ p \in DOMAIN stage_cache'
    \/ \E t \in Threads : pc'[t] \in StagePositions /\ AbsPath(frame'[t].file_path) = p

\* the layers still held after this step
Release(l) == [p \in {q \in DOMAIN l : HeldNext(q)} |-> l[p]]

\* stage.GetRootLayer().Save() (registry.py lines 137 and 162): when the
\* registry call of this step flushed a document, the file has its content
RootLayerSave(l) ==
    IF lastOp'.flush = "ok"
    THEN LET p == AbsPath(_stage_file_paths[lastOp'.h]) IN Put(disk, p, l[p])
    ELSE disk

\* Usd.Stage.Open(file_path): the layer in memory if there is one, else the file
OpenLayer(l, d, p) == IF p \in DOMAIN l THEN l ELSE Put(l, p, d[p])

\* a step that changes no document: a flush writes the file, and a layer no
\* stage holds any more is dropped
Storage ==
    /\ disk' = RootLayerSave(layer)
    /\ layer' = Release(layer)
    /\ UNCHANGED next_edit

\* ------------------------------------------------------ response envelope
\* success_response / error_response; the timestamp is left out and data is
\* the set of keys of the data map.  A success envelope has no error_code
\* key ("" here).  cause is not part of the envelope: it records why the tool
\* answered as it did.
success_response(tool, message, data, h, cause) ==
    [tool |-> tool, ok |-> TRUE, message |-> message, error_code |-> "",
     data |-> data, h |-> h, cause |-> cause, report |-> NoReport]
\* no caller passes error_code, so "error_code or 'UNKNOWN_ERROR'" is the default
error_response(tool, message, h, cause) ==
    [tool |-> tool, ok |-> FALSE, message |-> message, error_code |-> "UNKNOWN_ERROR",
     data |-> {}, h |-> h, cause |-> cause, report |-> NoReport]
\* what the caller receives
Envelope(r) == [ok |-> r.ok, message |-> r.message, error_code |-> r.error_code,
                data |-> r.data, h |-> r.h]

\* ------------------------------------------------------------- actions
Goto(t, p) == pc' = [pc EXCEPT ![t] = p]

\* direct calls of the registry's methods by a worker
api_register_stage(t) ==
    /\ pc[t] = "idle"
    /\ \E file_path \in Paths, tm \in Times : register_stage(t, file_path, tm)
    /\ IF _lock' = t
       THEN /\ Goto(t, "reg_cleanup")
            /\ frame' = [frame EXCEPT ![t] = [NoFrame EXCEPT !.h = next_id']]
       ELSE UNCHANGED <<pc, frame>>
    /\ toolResult' = NoResult
    /\ UNCHANGED <<stage_cache, integrity, stage_access_times, stage_modified, next_edit>>
    \* the stage passed to register_stage was opened from or created at file_path
    /\ LET p == AbsPath(_stage_file_paths'[lastOp'.h])
       IN /\ disk' = IF p \in DOMAIN disk THEN disk ELSE Put(disk, p, {})
          /\ layer' = OpenLayer(layer, disk', p)

api_get_stage(t) ==
    /\ pc[t] = "idle"
    /\ t \in ToolThreads
    /\ \E h \in Ids, tm \in Times : get_stage(t, h, tm)
    /\ /\ UNCHANGED <<pc, frame>> /\ toolResult' = NoResult
    /\ UNCHANGED <<stage_cache, integrity, stage_access_times, stage_modified>>
    /\ Storage

api_get_stage_path(t) ==
    /\ pc[t] = "idle"
    /\ t \in ToolThreads
    /\ \E h \in Ids : get_stage_path(t, h)
    /\ /\ UNCHANGED <<pc, frame>> /\ toolResult' = NoResult
    /\ UNCHANGED <<stage_cache, integrity, stage_access_times, stage_modified>>
    /\ Storage

api_mark_as_modified(t) ==
    /\ pc[t] = "idle"
    /\ \E h \in Ids : mark_as_modified(t, h)
    /\ /\ UNCHANGED <<pc, frame>> /\ toolResult' = NoResult
    /\ UNCHANGED <<stage_cache, integrity, stage_access_times, stage_modified>>
    /\ Storage

api_is_modified(t) ==
    /\ pc[t] = "idle"
    /\ t \in ToolThreads
    /\ \E h \in Ids : is_modified(t, h)
    /\ /\ UNCHANGED <<pc, frame>> /\ toolResult' = NoResult
    /\ UNCHANGED <<stage_cache, integrity, stage_access_times, stage_modified>>
    /\ Storage

api_get_all_stage_ids(t) ==
    /\ pc[t] = "idle"
    /\ t \in ToolThreads
    /\ get_all_stage_ids(t)
    /\ /\ UNCHANGED <<pc, frame>> /\ toolResult' = NoResult
    /\ UNCHANGED <<stage_cache, integrity, stage_access_times, stage_modified>>
    /\ Storage

api_save_stage(t) ==
    /\ pc[t] = "idle"
    /\ t \in ToolThreads
    /\ \E h \in Ids, flush_ok \in BOOLEAN : save_stage(t, h, flush_ok)
    /\ /\ UNCHANGED <<pc, frame>> /\ toolResult' = NoResult
    /\ UNCHANGED <<stage_cache, integrity, stage_access_times, stage_modified>>
    /\ Storage

\* get_stats: called directly, and by maintain_stage_registry after its cleanup
call_get_stats(t) ==
    /\ pc[t] = "m_stats" \/ (pc[t] = "idle" /\ t \in ToolThreads)
    /\ get_stats(t)
    /\ Goto(t, IF pc[t] = "m_stats" THEN "m_cleanup" ELSE "idle")
    /\ UNCHANGED frame /\ toolResult' = NoResult
    /\ UNCHANGED <<stage_cache, integrity, stage_access_times, stage_modified>>
    /\ Storage

\* The places unregister_stage is called from, with the arguments passed:
\* a direct call, close_stage_by_id, and perform_cache_cleanup's loop.
UnregisterArgs(t) ==
    IF pc[t] = "idle" THEN Ids \X BOOLEAN
    ELSE IF pc[t] = "close_unreg" THEN {<<frame[t].h, frame[t].sim>>}
    ELSE IF pc[t] = "cleanup_unreg" THEN {<<Head(frame[t].to_remove), TRUE>>}
    ELSE {}

call_unregister_stage(t) ==
    \E a \in UnregisterArgs(t), flush_ok \in BOOLEAN :
        /\ unregister_stage(t, a[1], a[2], flush_ok)
        /\ IF pc[t] = "close_unreg"
           THEN /\ Goto(t, "idle")
                /\ frame' = [frame EXCEPT ![t] = NoFrame]
                /\ toolResult' = (
                       IF lastOp'.ret = "True"
                       THEN success_response("close_stage_by_id",
                                "Stage <file_path> (ID: <stage_id>) successfully closed",
                                {}, a[1], "closed")
                       ELSE error_response("close_stage_by_id",
                                "Failed to close stage with ID <stage_id>",
                                a[1], "unregister_false"))
           ELSE IF pc[t] = "cleanup_unreg"
           THEN \* next iteration of the loop, or return len(stages_to_remove)
                /\ IF Len(frame[t].to_remove) > 1
                   THEN /\ frame' = [frame EXCEPT ![t].to_remove = Tail(@)]
                        /\ UNCHANGED pc
                   ELSE /\ frame' = [frame EXCEPT ![t] = NoFrame]
                        /\ Goto(t, IF frame[t].caller = "m_cleanup" THEN "m_stats" ELSE "idle")
                /\ toolResult' = NoResult
           ELSE /\ UNCHANGED <<pc, frame>> /\ toolResult' = NoResult
        /\ UNCHANGED <<stage_cache, integrity, stage_access_times, stage_modified>>
        /\ Storage

\* perform_cache_cleanup: called directly, by maintain_stage_registry, and by
\* register_stage (line 66) while register_stage holds the lock.
call_perform_cache_cleanup(t) ==
    /\ pc[t] \in {"m_cleanup", "reg_cleanup"} \/ (pc[t] = "idle" /\ t \in ToolThreads)
    /\ perform_cache_cleanup(t)
    /\ IF _lock' = t
       THEN /\ Goto(t, "cleanup_unreg")
            /\ frame' = [frame EXCEPT ![t] =
                            [NoFrame EXCEPT !.to_remove = stages_to_remove,
                                            !.caller = pc[t]]]
       ELSE /\ Goto(t, IF pc[t] = "m_cleanup" THEN "m_stats" ELSE "idle")
            /\ frame' = [frame EXCEPT ![t] = NoFrame]
    /\ toolResult' = NoResult
    /\ UNCHANGED <<stage_cache, integrity, stage_access_times, stage_modified>>
    /\ Storage

\* the save tool's answer when the registry's save_stage returned False
save_stage_failure(stage_id, cause) ==
    error_response("save_stage", "Stage not modified or error saving: <stage_id>",
                   stage_id, cause)

\* stage_operations.save_stage (the save tool): get_stage, then the
\* registry's save_stage, then get_stage_path; three separate lock sections.
save_stage_tool_get(t) ==
    /\ pc[t] = "idle"
    /\ t \in ToolThreads
    /\ \E stage_id \in Ids, tm \in Times :
        /\ get_stage(t, stage_id, tm)
        /\ IF lastOp'.ret = "None"
           THEN /\ toolResult' = (
                       error_response("save_stage", "Stage not found: <stage_id>",
                                      stage_id, "not_found"))
                /\ UNCHANGED <<pc, frame>>
           ELSE /\ Goto(t, "save_save")
                /\ frame' = [frame EXCEPT ![t] =
                                [NoFrame EXCEPT !.h = stage_id,
                                                !.file_path = _stage_file_paths[stage_id]]]
                /\ toolResult' = NoResult
    /\ UNCHANGED <<stage_cache, integrity, stage_access_times, stage_modified>>
    /\ Storage

save_stage_tool_save(t) ==
    /\ pc[t] = "save_save"
    /\ \E flush_ok \in BOOLEAN : save_stage(t, frame[t].h, flush_ok)
    /\ IF lastOp'.ret = "True"
       THEN /\ Goto(t, "save_path")
            /\ UNCHANGED frame /\ toolResult' = NoResult
       ELSE /\ Goto(t, "idle")
            /\ frame' = [frame EXCEPT ![t] = NoFrame]
            /\ toolResult' = save_stage_failure(frame[t].h,
                                  IF lastOp'.flush = "failed" THEN "flush_failed"
                                  ELSE IF lastOp'.was_live THEN "not_modified"
                                  ELSE "not_found")
    /\ UNCHANGED <<stage_cache, integrity, stage_access_times, stage_modified>>
    /\ Storage

save_stage_tool_path(t) ==
    /\ pc[t] = "save_path"
    /\ get_stage_path(t, frame[t].h)
    /\ Goto(t, "idle")
    /\ frame' = [frame EXCEPT ![t] = NoFrame]
    /\ toolResult' = (
           success_response("save_stage", "Stage saved successfully",
                            {"stage_id", "file_path"}, frame[t].h, "saved"))
    /\ UNCHANGED <<stage_cache, integrity, stage_access_times, stage_modified>>
    /\ Storage

\* close_stage_by_id (usd_mcp_server.py): get_stage_path, then unregister_stage
close_stage_by_id_path(t) ==
    /\ pc[t] = "idle"
    /\ t \in ToolThreads
    /\ \E stage_id \in Ids, save_if_modified \in BOOLEAN :
        /\ get_stage_path(t, stage_id)
        /\ IF lastOp'.ret = "None"
           THEN /\ toolResult' = (
                       error_response("close_stage_by_id",
                                      "Stage with ID <stage_id> not found in registry",
                                      stage_id, "not_found"))
                /\ UNCHANGED <<pc, frame>>
           ELSE /\ Goto(t, "close_unreg")
                /\ frame' = [frame EXCEPT ![t] =
                                [NoFrame EXCEPT !.h = stage_id, !.sim = save_if_modified]]
                /\ toolResult' = NoResult
    /\ UNCHANGED <<stage_cache, integrity, stage_access_times, stage_modified>>
    /\ Storage

\* ------------------------------------- tools of core/stage_operations.py
\* open_stage, lines 137-151: "abs_path in stage_cache", and if so the start
\* of the loop over stage_registry._stage_file_paths.items().  The loop reads
\* the registry's dict directly: the lock is not taken.  The dict iterator
\* remembers the size of the dict.
open_stage_begin(t) ==
    /\ pc[t] = "idle"
    /\ \E file_path \in ToolPaths, create_if_missing \in BOOLEAN :
        IF AbsPath(file_path) \in DOMAIN stage_cache
        THEN /\ Goto(t, "open_scan")
             /\ frame' = [frame EXCEPT ![t] =
                             [NoFrame EXCEPT !.file_path = file_path,
                                             !.create_if_missing = create_if_missing,
                                             !.size = Cardinality(DOMAIN _stage_file_paths)]]
        ELSE /\ Goto(t, "open_reg")
             /\ frame' = [frame EXCEPT ![t] =
                             [NoFrame EXCEPT !.file_path = file_path,
                                             !.create_if_missing = create_if_missing]]
    /\ lastOp' = NoCall
    /\ toolResult' = NoResult
    /\ UNCHANGED <<regvars, _lock, now, next_id, unloaded, stage_cache, integrity, stage_access_times, stage_modified>>
    /\ Storage

\* the handles the loop can return: the first in the dict's order whose path,
\* as it was registered, is abs_path
ScanMatch(file_path) ==
    LET M == {sid \in DOMAIN _stage_file_paths :
                    _stage_file_paths[sid] = AbsPath(file_path)}
    IN {sid \in M : \A x \in M : sid <= x}

\* open_stage, lines 145-151: the rest of the loop.  It returns the handle
\* found; a dict whose size changed since the loop began makes the iterator
\* raise RuntimeError (caught at line 176) unless the loop returned before;
\* with no match, open_stage goes on to open the file.
open_stage_scan(t) ==
    /\ pc[t] = "open_scan"
    /\ \/ \E sid \in ScanMatch(frame[t].file_path) :
            /\ toolResult' = success_response("open_stage", "Stage loaded from cache",
                                  {"stage_id", "file_path", "cached"}, sid, "cached")
            /\ Goto(t, "idle")
       \/ /\ Cardinality(DOMAIN _stage_file_paths) # frame[t].size
          /\ toolResult' = error_response("open_stage",
                                "Error opening stage: dictionary changed size during iteration",
                                NoStage, "raised")
          /\ Goto(t, "idle")
       \/ /\ Cardinality(DOMAIN _stage_file_paths) = frame[t].size
          /\ ScanMatch(frame[t].file_path) = {}
          /\ toolResult' = NoResult
          /\ Goto(t, "open_reg")
    /\ frame' = [frame EXCEPT ![t] = IF pc'[t] = "idle" THEN NoFrame ELSE @]
    /\ lastOp' = NoCall
    /\ UNCHANGED <<regvars, _lock, now, next_id, unloaded, stage_cache, integrity, stage_access_times, stage_modified>>
    /\ Storage

\* os.path.exists(file_path)
Exists(file_path) == AbsPath(file_path) \in DOMAIN disk

\* open_stage, lines 153-162: the file is missing and is not to be created,
\* or Usd.Stage.Open returns nothing or raises, or create_stage fails
open_stage_fail(t) ==
    /\ pc[t] = "open_reg"
    /\ \E r \in IF Exists(frame[t].file_path)
                 THEN {error_response("open_stage", "Failed to open stage: <file_path>",
                                      NoStage, "open_failed"),
                       error_response("open_stage", "Error opening stage: <exception>",
                                      NoStage, "raised")}
                 ELSE IF frame[t].create_if_missing
                 THEN {error_response("open_stage", "Error creating stage: <exception>",
                                      NoStage, "raised")}
                 ELSE {error_response("open_stage", "File not found: <file_path>",
                                      NoStage, "file_not_found")} :
        toolResult' = r
    /\ Goto(t, "idle")
    /\ frame' = [frame EXCEPT ![t] = NoFrame]
    /\ lastOp' = NoCall
    /\ UNCHANGED <<regvars, _lock, now, next_id, unloaded, stage_cache, integrity, stage_access_times, stage_modified>>
    /\ Storage

\* open_stage, lines 164-174 (the file was opened: register_stage, then
\* stage_cache[abs_path] = stage), and lines 154-156 with create_stage lines
\* 112-122 (the file was created: register_stage, the cache is not written).
\* A register_stage that goes over the cap does not return (line 66).
open_stage_register(t) ==
    /\ pc[t] = "open_reg"
    /\ Exists(frame[t].file_path) \/ frame[t].create_if_missing
    /\ \E tm \in Times :
        LET created == ~Exists(frame[t].file_path)
            p == AbsPath(frame[t].file_path)
        IN
        /\ register_stage(t, frame[t].file_path, tm)
        \* Usd.Stage.Open, or Usd.Stage.CreateNew and Save (create_stage line 110)
        /\ layer' = IF created THEN Put(layer, p, {}) ELSE OpenLayer(layer, disk, p)
        /\ disk' = IF created THEN Put(disk, p, {}) ELSE disk
        /\ IF _lock' = t
           THEN /\ Goto(t, "reg_cleanup")
                /\ frame' = [frame EXCEPT ![t] = [NoFrame EXCEPT !.h = next_id']]
                /\ toolResult' = NoResult
                /\ UNCHANGED stage_cache
           ELSE /\ Goto(t, "idle")
                /\ frame' = [frame EXCEPT ![t] = NoFrame]
                /\ IF created
                   THEN /\ toolResult' = success_response("open_stage",
                                             "Stage created successfully",
                                             {"stage_id", "file_path", "template", "up_axis"},
                                             next_id', "created")
                        /\ UNCHANGED stage_cache
                   ELSE /\ toolResult' = success_response("open_stage",
                                             "Stage opened successfully",
                                             {"stage_id", "file_path"}, next_id', "opened")
                        /\ stage_cache' = Put(stage_cache, AbsPath(frame[t].file_path),
                                              _stages'[lastOp'.h])
    /\ UNCHANGED <<integrity, stage_access_times, stage_modified, next_edit>>

\* create_stage (the create tool), lines 44-125: Usd.Stage.CreateNew, which
\* fails when a layer of that path is in memory, the template ("Unknown
\* template" otherwise), Save, register_stage.  The file is written anew.
create_stage(t) ==
    /\ pc[t] = "idle"
    /\ \E file_path \in ToolPaths, tm \in Times,
          outcome \in {"created", "unknown_template", "raised"} :
        LET p == AbsPath(file_path)
        IN IF outcome = "created"
           THEN /\ p \notin DOMAIN layer
                /\ register_stage(t, file_path, tm)
                /\ layer' = Put(layer, p, {})
                /\ disk' = Put(disk, p, {})
                /\ IF _lock' = t
                   THEN /\ Goto(t, "reg_cleanup")
                        /\ frame' = [frame EXCEPT ![t] = [NoFrame EXCEPT !.h = next_id']]
                        /\ toolResult' = NoResult
                   ELSE /\ UNCHANGED <<pc, frame>>
                        /\ toolResult' = success_response("create_stage",
                                             "Stage created successfully",
                                             {"stage_id", "file_path", "template", "up_axis"},
                                             next_id', "created")
           ELSE /\ toolResult' = (
                       IF outcome = "unknown_template"
                       THEN error_response("create_stage", "Unknown template: <template>",
                                           NoStage, "unknown_template")
                       ELSE error_response("create_stage", "Error creating stage: <exception>",
                                           NoStage, "raised"))
                /\ lastOp' = NoCall
                /\ UNCHANGED <<regvars, _lock, now, next_id, unloaded, pc, frame,
                               layer, disk>>
    /\ UNCHANGED <<stage_cache, integrity, stage_access_times, stage_modified, next_edit>>

\* the keys of analyze_stage's result (lines 277-283)
AnalyzeData == {"root_layer_path", "up_axis", "time_code_range", "default_prim", "prims"}

\* analyze_stage (path-based), lines 261-312: the stage is taken from
\* stage_cache, or opened and put into stage_cache; nothing removes it.  The
\* registry is not used.  h in the result is the document that was read.
analyze_stage(t) ==
    /\ pc[t] = "idle"
    /\ \E file_path \in ToolPaths \cup CachePaths, engine_ok \in BOOLEAN :
        LET abs_path == AbsPath(file_path)
        IN
        IF ~Exists(file_path)
        THEN /\ toolResult' = error_response("analyze_stage",
                                   "File not found: <file_path>", NoStage, "file_not_found")
             /\ UNCHANGED stage_cache
        ELSE IF abs_path \in DOMAIN stage_cache
        THEN /\ toolResult' =
                    IF engine_ok
                    THEN success_response("analyze_stage", "Stage analysis complete",
                                          AnalyzeData, stage_cache[abs_path], "from_cache")
                    ELSE error_response("analyze_stage",
                                        "Error analyzing stage: <exception>",
                                        stage_cache[abs_path], "raised")
             /\ UNCHANGED stage_cache
        ELSE IF engine_ok
        THEN /\ stage_cache' = Put(stage_cache, abs_path, TransientDoc)
             /\ toolResult' = success_response("analyze_stage", "Stage analysis complete",
                                   AnalyzeData, TransientDoc, "opened")
        ELSE /\ toolResult' = error_response("analyze_stage",
                                   "Failed to open stage: <file_path>", NoStage, "open_failed")
             /\ UNCHANGED stage_cache
    /\ lastOp' = NoCall
    /\ UNCHANGED <<regvars, _lock, now, next_id, unloaded, pc, frame, integrity, stage_access_times, stage_modified>>
    \* Usd.Stage.Open of a path put into stage_cache
    /\ layer' = [p \in DOMAIN layer \cup DOMAIN stage_cache' |->
                    IF p \in DOMAIN layer THEN layer[p] ELSE disk[p]]
    /\ UNCHANGED <<disk, next_edit>>

\* define_prim (handle-based), lines 331-354: get_stage, then the lookup of
\* prim_type in schema_map: an unsupported prim_type ends the call with an
\* error envelope.
define_prim_get(t) ==
    /\ pc[t] = "idle"
    /\ \E stage_id \in Ids, tm \in Times,
          outcome \in {"supported", "unsupported"} :
        /\ get_stage(t, stage_id, tm)
        /\ IF lastOp'.ret = "None"
           THEN /\ toolResult' = error_response("define_prim",
                                      "Stage not found: <stage_id>", stage_id, "not_found")
                /\ UNCHANGED <<pc, frame>>
           ELSE IF outcome = "unsupported"
           THEN /\ toolResult' = error_response("define_prim",
                                      "Unsupported prim type: <prim_type>",
                                      stage_id, "unsupported")
                /\ UNCHANGED <<pc, frame>>
           ELSE /\ Goto(t, "dp_define")
                /\ frame' = [frame EXCEPT ![t] =
                                [NoFrame EXCEPT !.h = stage_id,
                                                !.file_path = _stage_file_paths[stage_id]]]
                /\ toolResult' = NoResult
    /\ UNCHANGED <<stage_cache, integrity, stage_access_times, stage_modified>>
    /\ Storage

\* define_prim, lines 356-364: UsdGeom.Xform.Define of the missing parent,
\* then schema_class.Define of the prim, on the stage get_stage returned; no
\* lock is held.  Each Define that returns has changed the document; either
\* may raise, which ends the call with the error envelope of line 376.
define_prim_define(t) ==
    /\ pc[t] = "dp_define"
    /\ lastOp' = NoCall
    /\ UNCHANGED <<regvars, _lock, now, next_id, unloaded, stage_cache, integrity, stage_access_times, stage_modified, disk>>
    /\ \E outcome \in {"defined", "parent_defined", "raised"} :
        LET p == AbsPath(frame[t].file_path)
            changed == [layer EXCEPT ![p] = @ \cup {next_edit + 1}]
        IN IF outcome = "defined"
           THEN /\ next_edit < MaxEdits
                /\ Goto(t, "dp_mark")
                /\ UNCHANGED frame
                /\ toolResult' = NoResult
                /\ next_edit' = next_edit + 1
                /\ layer' = changed
           ELSE /\ Goto(t, "idle")
                /\ frame' = [frame EXCEPT ![t] = NoFrame]
                /\ IF outcome = "parent_defined"
                   THEN /\ next_edit < MaxEdits
                        /\ toolResult' = error_response("define_prim",
                                              "Error defining prim: <exception>",
                                              frame[t].h, "raised_after_change")
                        /\ next_edit' = next_edit + 1
                        /\ layer' = Release(changed)
                   ELSE /\ toolResult' = error_response("define_prim",
                                              "Error defining prim: <exception>",
                                              frame[t].h, "raised")
                        /\ UNCHANGED next_edit
                        /\ layer' = Release(layer)

\* define_prim, lines 366-374: mark_as_modified (its result is not looked
\* at), then the success envelope
define_prim_mark(t) ==
    /\ pc[t] = "dp_mark"
    /\ mark_as_modified(t, frame[t].h)
    /\ Goto(t, "idle")
    /\ frame' = [frame EXCEPT ![t] = NoFrame]
    /\ toolResult' = success_response("define_prim", "<prim_type> prim defined successfully",
                          {"stage_id", "prim_path", "prim_type"}, frame[t].h, "defined")
    /\ UNCHANGED <<stage_cache, integrity, stage_access_times, stage_modified>>
    /\ Storage

\* ------------------------------------------ physics/rigid_bodies.py
\* add_rigid_body_by_id, lines 79-84: get_stage
add_rigid_body_by_id_get(t) ==
    /\ pc[t] = "idle"
    /\ \E stage_id \in Ids, mass \in Masses, tm \in Times :
        /\ get_stage(t, stage_id, tm)
        /\ IF lastOp'.ret = "None"
           THEN /\ toolResult' = error_response("add_rigid_body_by_id",
                                      "Stage not found: <stage_id>", stage_id, "not_found")
                /\ UNCHANGED <<pc, frame>>
           ELSE /\ Goto(t, "rb_add")
                /\ frame' = [frame EXCEPT ![t] =
                                [NoFrame EXCEPT !.h = stage_id, !.mass = mass,
                                                !.file_path = _stage_file_paths[stage_id]]]
                /\ toolResult' = NoResult
    /\ UNCHANGED <<stage_cache, integrity, stage_access_times, stage_modified>>
    /\ Storage

\* add_rigid_body (lines 29-63) as add_rigid_body_by_id calls it at line 90,
\* and lines 92, 104-106.  mass is passed to CreateMassAttr().Set as it is.
\* An invalid prim path, or an exception (caught at line 61), makes it return
\* False; the exception may come after RigidBodyAPI.Apply changed the prim.
add_rigid_body(t) ==
    /\ pc[t] = "rb_add"
    /\ lastOp' = NoCall
    /\ UNCHANGED <<regvars, _lock, now, next_id, unloaded, stage_cache, integrity, stage_access_times, stage_modified, disk>>
    /\ \E outcome \in {"added", "invalid_prim", "raised", "raised_after_change"} :
        LET p == AbsPath(frame[t].file_path)
            changed == [layer EXCEPT ![p] = @ \cup {next_edit + 1}]
            failure(cause) == error_response("add_rigid_body_by_id",
                                  "Failed to add rigid body to <prim_path>", frame[t].h, cause)
        IN IF outcome = "added"
           THEN /\ next_edit < MaxEdits
                /\ Goto(t, "rb_mark")
                /\ UNCHANGED frame
                /\ toolResult' = NoResult
                /\ next_edit' = next_edit + 1
                /\ layer' = changed
           ELSE /\ Goto(t, "idle")
                /\ frame' = [frame EXCEPT ![t] = NoFrame]
                /\ toolResult' = failure(outcome)
                /\ IF outcome = "raised_after_change"
                   THEN /\ next_edit < MaxEdits
                        /\ next_edit' = next_edit + 1
                        /\ layer' = Release(changed)
                   ELSE /\ UNCHANGED next_edit
                        /\ layer' = Release(layer)

\* add_rigid_body_by_id, lines 92-103: mark_as_modified (its result is not
\* looked at), then the success envelope
add_rigid_body_by_id_mark(t) ==
    /\ pc[t] = "rb_mark"
    /\ mark_as_modified(t, frame[t].h)
    /\ Goto(t, "idle")
    /\ frame' = [frame EXCEPT ![t] = NoFrame]
    /\ toolResult' = success_response("add_rigid_body_by_id", "Rigid body added successfully",
                          {"stage_id", "prim_path", "mass", "dynamic", "initial_velocity"},
                          frame[t].h, "added")
    /\ UNCHANGED <<stage_cache, integrity, stage_access_times, stage_modified>>
    /\ Storage

\* ------------------------------------ the path cache of usd_mcp_server.py
\* MAX_CACHE_SIZE (line 70); the registry is constructed with the same number
\* (line 2956)
MAX_CACHE_SIZE == max_cache_size
\* stage_access_times[abs_path] = tm: a new key goes to the end of the dict
TimesPut(q, abs_path, tm) ==
    IF \E i \in 1..Len(q) : q[i][1] = abs_path
    THEN [i \in 1..Len(q) |-> IF q[i][1] = abs_path THEN <<abs_path, tm>> ELSE q[i]]
    ELSE Append(q, <<abs_path, tm>>)

\* del stage_access_times[stage_path]
TimesRemove(q, stage_path) ==
    LET keep(e) == e[1] # stage_path IN SelectSeq(q, keep)

\* sorted(stage_access_times.items(), key=lambda x: x[1]): a stable sort
RECURSIVE sorted_stages(_)
sorted_stages(q) ==
    IF q = <<>> THEN <<>>
    ELSE LET i == CHOOSE i \in 1..Len(q) :
                    \A j \in 1..Len(q) :
                        \/ q[i][2] < q[j][2]
                        \/ q[i][2] = q[j][2] /\ i <= j
         IN <<q[i]>> \o sorted_stages(SubSeq(q, 1, i - 1) \o SubSeq(q, i + 1, Len(q)))

\* create_reference (path-based), lines 490-549: the stage is taken from
\* stage_cache, or opened or created and put into stage_cache with an access
\* time; the reference is added, stage_modified is set, the root layer saved.
create_reference(t) ==
    /\ pc[t] = "idle"
    /\ \E file_path \in CachePaths, tm \in Times,
          outcome \in {"added", "no_reference_file", "save_raised"} :
        LET abs_path == AbsPath(file_path)
            opened == IF abs_path \in DOMAIN layer THEN layer
                      ELSE Put(layer, abs_path,
                               IF abs_path \in DOMAIN disk THEN disk[abs_path] ELSE {})
        IN IF outcome = "no_reference_file"
           THEN /\ toolResult' = error_response("create_reference",
                                      "Error adding reference: <ValueError>",
                                      NoStage, "validation")
                /\ UNCHANGED <<stage_cache, stage_access_times, stage_modified, now,
                               layer, disk, next_edit>>
           ELSE /\ next_edit < MaxEdits
                /\ next_edit' = next_edit + 1
                /\ IF abs_path \in DOMAIN stage_cache
                   THEN UNCHANGED <<stage_cache, stage_access_times, now>>
                   ELSE /\ stage_cache' = Put(stage_cache, abs_path, TransientDoc)
                        /\ stage_access_times' = TimesPut(stage_access_times, abs_path, tm)
                        /\ now' = tm
                /\ stage_modified' = Put(stage_modified, abs_path, TRUE)
                /\ layer' = [opened EXCEPT ![abs_path] = @ \cup {next_edit + 1}]
                /\ IF outcome = "added"
                   THEN /\ disk' = Put(disk, abs_path, layer'[abs_path])
                        /\ toolResult' = success_response("create_reference",
                                             "Successfully added reference to <reference_file_path>",
                                             {"stage_path", "prim_path", "reference_path",
                                              "reference_prim_path"},
                                             TransientDoc, "added")
                   ELSE /\ UNCHANGED disk
                        /\ toolResult' = error_response("create_reference",
                                             "Error adding reference: <exception>",
                                             TransientDoc, "raised_after_change")
    /\ lastOp' = NoCall
    /\ UNCHANGED <<regvars, _lock, next_id, unloaded, pc, frame, integrity>>

\* close_stage (path-based), lines 316-338: Unload, del stage_cache[abs_path];
\* stage_access_times and stage_modified keep the path
close_stage(t) ==
    /\ pc[t] = "idle"
    /\ \E file_path \in CachePaths :
        LET abs_path == AbsPath(file_path)
        IN IF abs_path \in DOMAIN stage_cache
           THEN /\ stage_cache' = Remove(stage_cache, abs_path)
                /\ toolResult' = success_response("close_stage",
                                      "Stage <file_path> successfully closed", {},
                                      stage_cache[abs_path], "closed")
           ELSE /\ UNCHANGED stage_cache
                /\ toolResult' = error_response("close_stage",
                                      "Stage <file_path> not found in cache",
                                      NoStage, "not_found")
    /\ lastOp' = NoCall
    /\ UNCHANGED <<regvars, _lock, now, next_id, unloaded, pc, frame, integrity,
                   stage_access_times, stage_modified>>
    /\ Storage

\* the dicts and files the loop of cleanup_stage_cache works on
CacheState == [cache |-> stage_cache, times |-> stage_access_times,
               modified |-> stage_modified, files |-> disk, raised |-> FALSE]

\* cleanup_stage_cache, lines 132-151: iterations i.. of the loop over
\* range(num_to_remove).  sorted_stages[i] raises IndexError when the list is
\* shorter than num_to_remove; a stage not in stage_cache is passed over; a
\* Save() that raises (the paths in failing) ends the iteration in the except
\* branch with the stage still cached.
RECURSIVE cleanup_loop(_, _, _, _, _)
cleanup_loop(i, num_to_remove, sorted, st, failing) ==
    IF i > num_to_remove THEN st
    ELSE IF i > Len(sorted) THEN [st EXCEPT !.raised = TRUE]
    ELSE LET stage_path == sorted[i][1]
             is_modified_path == stage_path \in DOMAIN st.modified /\ st.modified[stage_path]
         IN IF stage_path \notin DOMAIN st.cache
            THEN cleanup_loop(i + 1, num_to_remove, sorted, st, failing)
            ELSE IF is_modified_path /\ stage_path \in failing
            THEN cleanup_loop(i + 1, num_to_remove, sorted, st, failing)
            ELSE cleanup_loop(i + 1, num_to_remove, sorted,
                    [st EXCEPT !.cache = Remove(@, stage_path),
                               !.times = TimesRemove(@, stage_path),
                               !.modified = Remove(@, stage_path),
                               !.files = IF is_modified_path
                                         THEN Put(@, stage_path, layer[stage_path])
                                         ELSE @],
                    failing)

\* maintain_stage_cache, lines 109-117: one round of the loop, that is one
\* call of cleanup_stage_cache (lines 119-151); an exception it raises is
\* caught and logged by the loop
maintain_stage_cache ==
    /\ \E failing \in SUBSET {p \in DOMAIN stage_cache :
                                p \in DOMAIN stage_modified /\ stage_modified[p]} :
        LET st == IF Cardinality(DOMAIN stage_cache) <= MAX_CACHE_SIZE
                  THEN CacheState
                  ELSE cleanup_loop(1, Cardinality(DOMAIN stage_cache) - MAX_CACHE_SIZE,
                                    sorted_stages(stage_access_times), CacheState, failing)
        IN /\ stage_cache' = st.cache
           /\ stage_access_times' = st.times
           /\ stage_modified' = st.modified
           /\ disk' = st.files
           /\ lastOp' = Done("cleanup_stage_cache", NoStage, FALSE, "none",
                             IF st.raised THEN "IndexError" ELSE "None")
    /\ toolResult' = NoResult
    /\ UNCHANGED <<regvars, _lock, now, next_id, unloaded, pc, frame, integrity, next_edit>>
    /\ layer' = Release(layer)

\* ------------------------------ create_mesh_by_id of usd_mcp_server.py
\* create_mesh_by_id, lines 3243-3259: the checks of the lists (MeshError,
\* caught at line 3293), then get_stage
create_mesh_by_id_get(t) ==
    /\ pc[t] = "idle"
    /\ \/ /\ toolResult' = error_response("create_mesh_by_id",
                                 "Error creating mesh: <MeshError>", NoStage, "validation")
          /\ lastOp' = NoCall
          /\ UNCHANGED <<regvars, _lock, now, next_id, unloaded, pc, frame>>
       \/ \E stage_id \in Ids, tm \in Times :
            /\ get_stage(t, stage_id, tm)
            /\ IF lastOp'.ret = "None"
               THEN /\ toolResult' = error_response("create_mesh_by_id",
                                          "Stage with ID <stage_id> not found",
                                          stage_id, "not_found")
                    /\ UNCHANGED <<pc, frame>>
               ELSE /\ Goto(t, "cm_path")
                    /\ frame' = [frame EXCEPT ![t] =
                                    [NoFrame EXCEPT !.h = stage_id,
                                                    !.file_path = _stage_file_paths[stage_id]]]
                    /\ toolResult' = NoResult
    /\ UNCHANGED <<stage_cache, integrity, stage_access_times, stage_modified>>
    /\ Storage

\* create_mesh_by_id, line 3262: get_stage_path, for the response only
create_mesh_by_id_path(t) ==
    /\ pc[t] = "cm_path"
    /\ get_stage_path(t, frame[t].h)
    /\ Goto(t, "cm_define")
    /\ UNCHANGED frame
    /\ toolResult' = NoResult
    /\ UNCHANGED <<stage_cache, integrity, stage_access_times, stage_modified>>
    /\ Storage

\* create_mesh_by_id, lines 3265-3277: Mesh.Define and the attribute writes
\* on the stage get_stage returned; a call that raises after Define returned
\* leaves the document changed
create_mesh_by_id_define(t) ==
    /\ pc[t] = "cm_define"
    /\ lastOp' = NoCall
    /\ UNCHANGED <<regvars, _lock, now, next_id, unloaded, stage_cache, integrity, stage_access_times, stage_modified, disk>>
    /\ \E outcome \in {"defined", "raised", "raised_after_change"} :
        LET p == AbsPath(frame[t].file_path)
            changed == [layer EXCEPT ![p] = @ \cup {next_edit + 1}]
        IN IF outcome = "defined"
           THEN /\ next_edit < MaxEdits
                /\ Goto(t, "cm_mark")
                /\ UNCHANGED frame
                /\ toolResult' = NoResult
                /\ next_edit' = next_edit + 1
                /\ layer' = changed
           ELSE /\ Goto(t, "idle")
                /\ frame' = [frame EXCEPT ![t] = NoFrame]
                /\ toolResult' = error_response("create_mesh_by_id",
                                      "Error creating mesh: <exception>", frame[t].h, outcome)
                /\ IF outcome = "raised_after_change"
                   THEN /\ next_edit < MaxEdits
                        /\ next_edit' = next_edit + 1
                        /\ layer' = Release(changed)
                   ELSE /\ UNCHANGED next_edit
                        /\ layer' = Release(layer)

\* create_mesh_by_id, line 3280: mark_as_modified, its result not looked at
create_mesh_by_id_mark(t) ==
    /\ pc[t] = "cm_mark"
    /\ mark_as_modified(t, frame[t].h)
    /\ Goto(t, "cm_save")
    /\ UNCHANGED frame
    /\ toolResult' = NoResult
    /\ UNCHANGED <<stage_cache, integrity, stage_access_times, stage_modified>>
    /\ Storage

\* create_mesh_by_id, lines 3283-3292: stage.GetRootLayer().Save() by the
\* tool itself, outside the registry, then the success envelope.  Save writes
\* the file and returns True, or returns False (not looked at), or raises.
create_mesh_by_id_save(t) ==
    /\ pc[t] = "cm_save"
    /\ lastOp' = NoCall
    /\ UNCHANGED <<regvars, _lock, now, next_id, unloaded, stage_cache, integrity, stage_access_times, stage_modified, next_edit>>
    /\ Goto(t, "idle")
    /\ frame' = [frame EXCEPT ![t] = NoFrame]
    /\ \E outcome \in {"saved", "save_false", "raised"} :
        LET p == AbsPath(frame[t].file_path)
        IN /\ disk' = IF outcome = "saved" THEN Put(disk, p, layer[p]) ELSE disk
           /\ toolResult' =
                IF outcome = "raised"
                THEN error_response("create_mesh_by_id", "Error creating mesh: <exception>",
                                    frame[t].h, "raised")
                ELSE success_response("create_mesh_by_id",
                                      "Successfully created mesh at <prim_path>",
                                      {"stage_id", "file_path", "prim_path"},
                                      frame[t].h, outcome)
    /\ layer' = Release(layer)

\* ------------------------------------ status tools of usd_mcp_server.py
\* server_start_time = time.time() at import (line 45), the origin of the clock
server_start_time == 0
\* get_server_status, lines 2263-2315: uptime, and under "cache" the size of
\* stage_cache and MAX_CACHE_SIZE; "stages" has one item per path of stage_cache
get_server_status(t) ==
    /\ pc[t] = "idle"
    /\ toolResult' = [success_response("get_server_status", "Server status",
                           {"server", "cache", "stages"}, NoStage, "status")
                      EXCEPT !.report =
                        [NoReport EXCEPT
                            !.uptime = now - server_start_time,
                            !.cache = [stages_cached |-> Cardinality(DOMAIN stage_cache),
                                       max_cache_size |-> MAX_CACHE_SIZE],
                            !.stages = DOMAIN stage_cache]]
    /\ lastOp' = NoCall
    /\ UNCHANGED <<regvars, _lock, now, next_id, unloaded, pc, frame, stage_cache, integrity, stage_access_times, stage_modified>>
    /\ Storage

\* the keys of get_registry_status's data
RegistryStatusData == {"total_stages", "max_cache_size", "modified_stages", "stage_ids",
                       "server_uptime", "server_version", "stage_details"}

\* the result of get_registry_status (line 2346) from what the frame collected
RegistryStatus(stats, details) ==
    [success_response("get_registry_status", "Stage registry status",
                      RegistryStatusData, NoStage, "status")
     EXCEPT !.report = [NoReport EXCEPT !.uptime = now - server_start_time,
                                        !.stats = stats,
                                        !.stage_details = details]]

\* the stage ids of stats["stage_ids"] the loop of line 2334 has yet to visit
Remaining(f) == {i \in f.stats.stage_ids : \A d \in f.details : d.stage_id # i}

\* get_registry_status, lines 2324-2330: stage_registry.get_stats()
get_registry_status_stats(t) ==
    /\ pc[t] = "idle"
    /\ get_stats(t)
    /\ IF lastOp'.stats.stage_ids = {}
       THEN /\ toolResult' = RegistryStatus(lastOp'.stats, {})
            /\ UNCHANGED <<pc, frame>>
       ELSE /\ Goto(t, "rs_path")
            /\ frame' = [frame EXCEPT ![t] = [NoFrame EXCEPT !.stats = lastOp'.stats]]
            /\ toolResult' = NoResult
    /\ UNCHANGED <<stage_cache, integrity, stage_access_times, stage_modified>>
    /\ Storage

\* get_registry_status, lines 2334-2335: get_stage_path of the next stage id
get_registry_status_path(t) ==
    /\ pc[t] = "rs_path"
    /\ \E stage_id \in Remaining(frame[t]) :
        /\ \A i \in Remaining(frame[t]) : stage_id <= i
        /\ get_stage_path(t, stage_id)
        /\ frame' = [frame EXCEPT ![t].h = stage_id, ![t].file_path = lastOp'.ret]
    /\ Goto(t, "rs_mod")
    /\ toolResult' = NoResult
    /\ UNCHANGED <<stage_cache, integrity, stage_access_times, stage_modified>>
    /\ Storage

\* get_registry_status, lines 2336-2346: is_modified of that stage id, the
\* item of stage_details, and after the last stage id the result
get_registry_status_modified(t) ==
    /\ pc[t] = "rs_mod"
    /\ is_modified(t, frame[t].h)
    /\ LET details == frame[t].details \cup
                        {[stage_id |-> frame[t].h, file_path |-> frame[t].file_path,
                          modified |-> lastOp'.ret = "True"]}
       IN IF Remaining(frame[t]) = {frame[t].h}
          THEN /\ Goto(t, "idle")
               /\ frame' = [frame EXCEPT ![t] = NoFrame]
               /\ toolResult' = RegistryStatus(frame[t].stats, details)
          ELSE /\ Goto(t, "rs_path")
               /\ frame' = [frame EXCEPT ![t].details = details]
               /\ toolResult' = NoResult
    /\ UNCHANGED <<stage_cache, integrity, stage_access_times, stage_modified>>
    /\ Storage

\* The registry as constructed on import; the maintenance threads run only
\* once start_maintenance_threads() was called (InitMaint).
Init ==
    /\ _stages = <<>>
    /\ _stage_file_paths = <<>>
    /\ _stage_access_times = <<>>
    /\ _stage_modified = <<>>
    /\ _lock = NoThread
    /\ now = 0
    /\ next_id = 0
    /\ unloaded = {}
    /\ pc = [t \in Threads |-> IF t = Maint THEN "m_off" ELSE "idle"]
    /\ frame = [t \in Threads |-> NoFrame]
    /\ lastOp = [op |-> "init", h |-> NoStage, sim |-> FALSE, was_live |-> FALSE,
                 was_modified |-> FALSE, flush |-> "none", ret |-> "None",
                 after_get |-> NoStage, stats |-> NoStats]
    /\ toolResult = NoResult
    /\ stage_cache = <<>>
    /\ integrity = IntegrityIdle
    /\ layer = <<>>
    /\ disk = <<>>
    /\ next_edit = 0
    /\ stage_access_times = <<>>
    /\ stage_modified = <<>>

Worker(t) ==
    \/ api_register_stage(t)
    \/ api_get_stage(t)
    \/ api_get_stage_path(t)
    \/ api_mark_as_modified(t)
    \/ api_is_modified(t)
    \/ api_get_all_stage_ids(t)
    \/ api_save_stage(t)
    \/ save_stage_tool_get(t)
    \/ save_stage_tool_save(t)
    \/ save_stage_tool_path(t)
    \/ close_stage_by_id_path(t)

Next ==
    \/ \E t \in Workers : Worker(t)
    \/ \E t \in Threads : call_unregister_stage(t)
    \/ \E t \in Threads : call_perform_cache_cleanup(t)
    \/ \E t \in Threads : call_get_stats(t)

Spec == Init /\ [][Next]_vars

\* unregister_stage called directly by a thread that serves no tool call, and
\* from the call sites inside close_stage_by_id and perform_cache_cleanup
tool_unregister_stage(t) ==
    /\ t \in ToolThreads => pc[t] # "idle"
    /\ call_unregister_stage(t)

\* The tools: w1 serves the tool calls, one at a time; beside it w2
\* unregisters stages directly.
Tool(t) ==
    \/ create_stage(t)
    \/ open_stage_begin(t)
    \/ open_stage_scan(t)
    \/ open_stage_fail(t)
    \/ open_stage_register(t)
    \/ analyze_stage(t)
    \/ define_prim_get(t)
    \/ define_prim_define(t)
    \/ define_prim_mark(t)
    \/ save_stage_tool_get(t)
    \/ save_stage_tool_save(t)
    \/ save_stage_tool_path(t)
    \/ close_stage_by_id_path(t)

ToolNext ==
    \/ \E t \in ToolThreads : Tool(t)
    \/ \E t \in Threads : tool_unregister_stage(t)
    \/ \E t \in Threads : call_perform_cache_cleanup(t)

ToolSpec == Init /\ [][ToolNext]_vars

\* every thread that can take a step of ToolNext eventually takes one
FairToolSpec ==
    /\ ToolSpec
    /\ \A t \in ToolThreads : WF_vars(Tool(t))
    /\ \A t \in Threads : WF_vars(tool_unregister_stage(t) \/ call_perform_cache_cleanup(t))

\* The tools that create, open, change, save and close a document, called
\* one after the other by one client, beside a second thread that closes
\* documents.  (A register_stage that goes over the cap waits for the lock it
\* holds: that call takes no further step.)
DocTool(t) ==
    \/ create_stage(t)
    \/ open_stage_begin(t)
    \/ open_stage_scan(t)
    \/ open_stage_fail(t)
    \/ open_stage_register(t)
    \/ define_prim_get(t)
    \/ define_prim_define(t)
    \/ define_prim_mark(t)
    \/ save_stage_tool_get(t)
    \/ save_stage_tool_save(t)
    \/ save_stage_tool_path(t)
    \/ close_stage_by_id_path(t)

DocNext ==
    \/ \E t \in ToolThreads : DocTool(t)
    \/ \E t \in Workers : tool_unregister_stage(t)

\* The server starts when the clock shows MaxTime: all accesses of the run
\* fall into one tick (the order of the accesses plays no part here).
InitDoc ==
    /\ _stages = <<>>
    /\ _stage_file_paths = <<>>
    /\ _stage_access_times = <<>>
    /\ _stage_modified = <<>>
    /\ _lock = NoThread
    /\ now = MaxTime
    /\ next_id = 0
    /\ unloaded = {}
    /\ pc = [t \in Threads |-> IF t = Maint THEN "m_off" ELSE "idle"]
    /\ frame = [t \in Threads |-> NoFrame]
    /\ lastOp = [op |-> "init", h |-> NoStage, sim |-> FALSE, was_live |-> FALSE,
                 was_modified |-> FALSE, flush |-> "none", ret |-> "None",
                 after_get |-> NoStage, stats |-> NoStats]
    /\ toolResult = NoResult
    /\ stage_cache = <<>>
    /\ integrity = IntegrityIdle
    /\ layer = <<>>
    /\ disk = <<>>
    /\ next_edit = 0
    /\ stage_access_times = <<>>
    /\ stage_modified = <<>>

DocSpec == InitDoc /\ [][DocNext]_vars

\* A client that creates documents and adds rigid bodies to them, beside a
\* second thread that closes documents.
PhysicsNext ==
    \/ \E t \in ToolThreads :
            \/ create_stage(t)
            \/ add_rigid_body_by_id_get(t)
            \/ add_rigid_body(t)
            \/ add_rigid_body_by_id_mark(t)
    \/ \E t \in Workers : tool_unregister_stage(t)

PhysicsSpec == InitDoc /\ [][PhysicsNext]_vars

\* A client that creates documents, adds meshes to them and saves them,
\* beside a second thread that closes documents.
MeshNext ==
    \/ \E t \in ToolThreads :
            \/ create_stage(t)
            \/ create_mesh_by_id_get(t)
            \/ create_mesh_by_id_path(t)
            \/ create_mesh_by_id_define(t)
            \/ create_mesh_by_id_mark(t)
            \/ create_mesh_by_id_save(t)
            \/ save_stage_tool_get(t)
            \/ save_stage_tool_save(t)
            \/ save_stage_tool_path(t)
    \/ \E t \in Workers : tool_unregister_stage(t)

MeshSpec == InitDoc /\ [][MeshNext]_vars

\* The path-based tools on files that exist, and the cache maintenance thread.
CacheNext ==
    \/ \E t \in ToolThreads :
            \/ analyze_stage(t)
            \/ create_reference(t)
            \/ close_stage(t)
    \/ maintain_stage_cache

\* the files of CachePaths exist when the server starts
InitCache ==
    /\ _stages = <<>>
    /\ _stage_file_paths = <<>>
    /\ _stage_access_times = <<>>
    /\ _stage_modified = <<>>
    /\ _lock = NoThread
    /\ now = 0
    /\ next_id = 0
    /\ unloaded = {}
    /\ pc = [t \in Threads |-> IF t = Maint THEN "m_off" ELSE "idle"]
    /\ frame = [t \in Threads |-> NoFrame]
    /\ lastOp = [op |-> "init", h |-> NoStage, sim |-> FALSE, was_live |-> FALSE,
                 was_modified |-> FALSE, flush |-> "none", ret |-> "None",
                 after_get |-> NoStage, stats |-> NoStats]
    /\ toolResult = NoResult
    /\ stage_cache = <<>>
    /\ integrity = IntegrityIdle
    /\ layer = <<>>
    /\ disk = [p \in CachePaths |-> {}]
    /\ next_edit = 0
    /\ stage_access_times = <<>>
    /\ stage_modified = <<>>

CacheSpec == InitCache /\ [][CacheNext]_vars

\* A client that creates and analyzes documents and asks for the status,
\* beside a second thread that closes documents.
StatusNext ==
    \/ \E t \in ToolThreads :
            \/ create_stage(t)
            \/ analyze_stage(t)
            \/ get_server_status(t)
            \/ get_registry_status_stats(t)
            \/ get_registry_status_path(t)
            \/ get_registry_status_modified(t)
    \/ \E t \in Workers : tool_unregister_stage(t)

StatusSpec == Init /\ [][StatusNext]_vars

\* ---------------------------------------------- maintain_stage_registry
\* the loop without its try/except: an exception ends the thread
maintain_stage_registry_no_except(t, op) ==
    /\ Goto(t, "m_dead")
    /\ lastOp' = Done(op, NoStage, FALSE, "none", "raised")

\* lines 295-297: "except Exception" logs the exception and the while loop
\* goes on with the next sleep and pass
maintain_stage_registry_except(t, op) ==
    /\ Goto(t, "m_cleanup")
    /\ lastOp' = Done(op, NoStage, FALSE, "none", "raised")

\* A pass in which perform_cache_cleanup or get_stats (or the logging between
\* them) raises.  The exception leaves the "with self._lock" block, which
\* releases the lock, before it reaches the handler.
maintain_pass_raises(t) ==
    /\ pc[t] \in {"m_cleanup", "m_stats"}
    /\ _lock = NoThread
    /\ maintain_stage_registry_except(t, IF pc[t] = "m_cleanup"
                                         THEN "perform_cache_cleanup" ELSE "get_stats")
    /\ toolResult' = NoResult
    /\ UNCHANGED <<regvars, _lock, now, next_id, unloaded, frame, stage_cache, integrity, stage_access_times, stage_modified>>
    /\ Storage

\* after start_maintenance_threads(): maintain_stage_registry runs its loop
InitMaint ==
    /\ _stages = <<>>
    /\ _stage_file_paths = <<>>
    /\ _stage_access_times = <<>>
    /\ _stage_modified = <<>>
    /\ _lock = NoThread
    /\ now = 0
    /\ next_id = 0
    /\ unloaded = {}
    /\ pc = [t \in Threads |-> IF t = Maint THEN "m_cleanup" ELSE "idle"]
    /\ frame = [t \in Threads |-> NoFrame]
    /\ lastOp = [op |-> "init", h |-> NoStage, sim |-> FALSE, was_live |-> FALSE,
                 was_modified |-> FALSE, flush |-> "none", ret |-> "None",
                 after_get |-> NoStage, stats |-> NoStats]
    /\ toolResult = NoResult
    /\ stage_cache = <<>>
    /\ integrity = IntegrityIdle
    /\ layer = <<>>
    /\ disk = <<>>
    /\ next_edit = 0
    /\ stage_access_times = <<>>
    /\ stage_modified = <<>>

\* the maintenance thread beside a worker that uses the registry, and a
\* second one that unregisters
MaintNext ==
    \/ \E t \in ToolThreads :
            \/ api_register_stage(t)
            \/ api_get_stage(t)
            \/ api_mark_as_modified(t)
            \/ api_save_stage(t)
    \/ \E t \in Threads : call_unregister_stage(t)
    \/ \E t \in Threads : call_perform_cache_cleanup(t)
    \/ \E t \in Threads : call_get_stats(t)
    \/ maintain_pass_raises(Maint)

MaintSpec == InitMaint /\ [][MaintNext]_vars

\* every thread that can take a step of MaintNext eventually takes one
FairMaintSpec ==
    /\ MaintSpec
    /\ \A t \in ToolThreads : WF_vars(api_register_stage(t) \/ api_get_stage(t)
                                        \/ api_mark_as_modified(t) \/ api_save_stage(t))
    /\ \A t \in Threads : WF_vars(call_unregister_stage(t) \/ call_perform_cache_cleanup(t)
                                    \/ call_get_stats(t))
    /\ WF_vars(call_perform_cache_cleanup(Maint) \/ call_get_stats(Maint)
                  \/ maintain_pass_raises(Maint))

\* Every thread that can take a step eventually takes one (the threads are
\* scheduled by the operating system; none is starved).
FairSpec == Spec /\ \A t \in Threads : WF_vars(Worker(t) \/ call_unregister_stage(t)
                        \/ call_perform_cache_cleanup(t) \/ call_get_stats(t))

\* ------------------------------------- the two calling conventions
\* FUNCTION_PAIRS of check_integrity.py: <<path-based f, handle-based f_by_id>>
FUNCTION_PAIRS ==
    <<<<"analyze_stage", "analyze_stage_by_id">>,
      <<"create_mesh", "create_mesh_by_id">>,
      <<"create_primitive", "create_primitive_by_id">>,
      <<"create_reference", "create_reference_by_id">>,
      <<"create_material", "create_material_by_id">>,
      <<"bind_material", "bind_material_by_id">>,
      <<"set_transform", "set_transform_by_id">>,
      <<"visualize_scene_graph", "visualize_scene_graph_by_id">>,
      <<"close_stage", "close_stage_by_id">>,
      <<"setup_physics_scene", "setup_physics_scene_by_id">>,
      <<"add_rigid_body", "add_rigid_body_by_id">>>>

\* a parameter as parse_function_parameters records it: the name, the
\* annotation and the default ("<none>": the parameter has no default)
Param(name, type, default) == [name |-> name, type |-> type, default |-> default]

\* the parameter lists of the tool functions of usd_mcp_server.py
Parameters(f) ==
    CASE f = "analyze_stage" ->
        <<Param("file_path", "str", "<none>")>>
      [] f = "analyze_stage_by_id" ->
        <<Param("stage_id", "str", "<none>"),
          Param("include_attributes", "bool", "False")>>
      [] f = "create_mesh" ->
        <<Param("file_path", "str", "<none>"),
          Param("prim_path", "str", "<none>"),
          Param("points", "List[tuple]", "<none>"),
          Param("face_vertex_counts", "List[int]", "<none>"),
          Param("face_vertex_indices", "List[int]", "<none>")>>
      [] f = "create_mesh_by_id" ->
        <<Param("stage_id", "str", "<none>"),
          Param("prim_path", "str", "<none>"),
          Param("points", "List[tuple]", "<none>"),
          Param("face_vertex_counts", "List[int]", "<none>"),
          Param("face_vertex_indices", "List[int]", "<none>")>>
      [] f = "create_primitive" ->
        <<Param("file_path", "str", "<none>"),
          Param("prim_type", "str", "<none>"),
          Param("prim_path", "str", "<none>"),
          Param("size", "float", "1.0"),
          Param("position", "tuple", "(0, 0, 0)")>>
      [] f = "create_primitive_by_id" ->
        <<Param("stage_id", "str", "<none>"),
          Param("prim_type", "str", "<none>"),
          Param("prim_path", "str", "<none>"),
          Param("size", "float", "1.0"),
          Param("position", "tuple", "(0, 0, 0)")>>
      [] f = "create_reference" ->
        <<Param("file_path", "str", "<none>"),
          Param("prim_path", "str", "<none>"),
          Param("reference_file_path", "str", "<none>"),
          Param("reference_prim_path", "str", "''")>>
      [] f = "create_reference_by_id" ->
        <<Param("stage_id", "str", "<none>"),
          Param("prim_path", "str", "<none>"),
          Param("reference_file_path", "str", "<none>"),
          Param("reference_prim_path", "str", "''")>>
      [] f = "create_material" ->
        <<Param("file_path", "str", "<none>"),
          Param("material_path", "str", "<none>"),
          Param("diffuse_color", "tuple", "(0.8, 0.8, 0.8)"),
          Param("metallic", "float", "0.0"),
          Param("roughness", "float", "0.4")>>
      [] f = "create_material_by_id" ->
        <<Param("stage_id", "str", "<none>"),
          Param("material_path", "str", "<none>"),
          Param("diffuse_color", "tuple", "(0.8, 0.8, 0.8)"),
          Param("metallic", "float", "0.0"),
          Param("roughness", "float", "0.4")>>
      [] f = "bind_material" ->
        <<Param("file_path", "str", "<none>"),
          Param("prim_path", "str", "<none>"),
          Param("material_path", "str", "<none>")>>
      [] f = "bind_material_by_id" ->
        <<Param("stage_id", "str", "<none>"),
          Param("prim_path", "str", "<none>"),
          Param("material_path", "str", "<none>")>>
      [] f = "set_transform" ->
        <<Param("file_path", "str", "<none>"),
          Param("prim_path", "str", "<none>"),
          Param("translate", "Optional[tuple]", "None"),
          Param("rotate", "Optional[tuple]", "None"),
          Param("scale", "Optional[tuple]", "None"),
          Param("time_code", "Optional[float]", "None")>>
      [] f = "set_transform_by_id" ->
        <<Param("stage_id", "str", "<none>"),
          Param("prim_path", "str", "<none>"),
          Param("translate", "Optional[tuple]", "None"),
          Param("rotate", "Optional[tuple]", "None"),
          Param("scale", "Optional[tuple]", "None"),
          Param("time_code", "Optional[float]", "None")>>
      [] f = "visualize_scene_graph" ->
        <<Param("file_path", "str", "<none>"),
          Param("output_format", "str", "'text'"),
          Param("output_path", "Optional[str]", "None"),
          Param("max_depth", "int", "-1"),
          Param("include_properties", "bool", "False")>>
      [] f = "visualize_scene_graph_by_id" ->
        <<Param("stage_id", "str", "<none>"),
          Param("output_format", "str", "'text'"),
          Param("output_path", "Optional[str]", "None"),
          Param("max_depth", "int", "-1"),
          Param("include_properties", "bool", "False"),
          Param("filter_type", "Optional[str]", "None"),
          Param("filter_path", "Optional[str]", "None")>>
      [] f = "close_stage" ->
        <<Param("file_path", "str", "<none>")>>
      [] f = "close_stage_by_id" ->
        <<Param("stage_id", "str", "<none>"),
          Param("save_if_modified", "bool", "True")>>
      [] f = "setup_physics_scene" ->
        <<Param("file_path", "str", "<none>"),
          Param("gravity", "tuple", "(0, -9.81, 0)")>>
      [] f = "setup_physics_scene_by_id" ->
        <<Param("stage_id", "str", "<none>"),
          Param("gravity", "tuple", "(0, -9.81, 0)")>>
      [] f = "add_rigid_body" ->
        <<Param("file_path", "str", "<none>"),
          Param("prim_path", "str", "<none>"),
          Param("mass", "float", "1.0"),
          Param("is_dynamic", "bool", "True")>>
      [] f = "add_rigid_body_by_id" ->
        <<Param("stage_id", "str", "<none>"),
          Param("prim_path", "str", "<none>"),
          Param("mass", "float", "1.0"),
          Param("is_dynamic", "bool", "True")>>
      [] f = "create_stage" ->
        <<Param("file_path", "str", "<none>"),
          Param("template", "Optional[str]", "None"),
          Param("up_axis", "str", "Y")>>
      [] f = "open_stage" ->
        <<Param("file_path", "str", "<none>"),
          Param("create_if_missing", "bool", "False")>>

\* the keys of the data map of the success envelope of each tool function
\* whose data is written out in its success_response call
SuccessData(f) ==
    CASE f = "create_mesh" -> {"stage_path", "prim_path"}
      [] f = "create_mesh_by_id" -> {"stage_id", "file_path", "prim_path"}
      [] f = "create_primitive" ->
            {"stage_path", "prim_path", "prim_type", "size", "position"}
      [] f = "create_primitive_by_id" ->
            {"stage_id", "file_path", "prim_path", "prim_type", "size", "position"}
      [] f = "create_reference" ->
            {"stage_path", "prim_path", "reference_path", "reference_prim_path"}
      [] f = "create_reference_by_id" ->
            {"stage_id", "file_path", "prim_path", "reference_path", "reference_prim_path"}
      [] f = "create_material" -> {"stage_path", "material_path", "properties"}
      [] f = "create_material_by_id" ->
            {"stage_id", "file_path", "material_path", "properties"}
      [] f = "bind_material" -> {"stage_path", "prim_path", "material_path"}
      [] f = "bind_material_by_id" ->
            {"stage_id", "file_path", "prim_path", "material_path"}
      [] f = "set_transform" -> {"stage_path", "prim_path", "transform"}
      [] f = "set_transform_by_id" ->
            {"stage_id", "file_path", "prim_path", "translate", "rotate", "scale", "time_code"}
      [] f = "close_stage" -> {}
      [] f = "close_stage_by_id" -> {}
      [] f = "setup_physics_scene" -> {"stage_path", "scene_path", "gravity"}
      [] f = "setup_physics_scene_by_id" -> {"scene_path", "gravity"}
      [] f = "add_rigid_body" -> {"stage_path", "prim_path", "mass", "is_dynamic"}
      [] f = "add_rigid_body_by_id" -> {"prim_path", "mass", "is_dynamic"}

\* the pairs SuccessData covers
DataPairs == {i \in DOMAIN FUNCTION_PAIRS : FUNCTION_PAIRS[i][1] \in
    {"create_mesh", "create_primitive", "create_reference", "create_material", "bind_material", "set_transform", "close_stage", "setup_physics_scene", "add_rigid_body"}}

\* the parameters of a handle-based function with stage_id renamed file_path
AsPathParameters(f) ==
    LET ps == Parameters(f)
    IN {IF ps[i].name = "stage_id" THEN [ps[i] EXCEPT !.name = "file_path"] ELSE ps[i] :
            i \in DOMAIN ps}

PathParameters(f) == LET ps == Parameters(f) IN {ps[i] : i \in DOMAIN ps}

\* ------------------------------------------------- check_integrity.py
\* main() parses usd_mcp_server.py and sorts its functions into the two dicts
\* compare_functions receives.
ToolFunctions == {FUNCTION_PAIRS[i][1] : i \in DOMAIN FUNCTION_PAIRS}
                    \cup {FUNCTION_PAIRS[i][2] : i \in DOMAIN FUNCTION_PAIRS}
stage_id_funcs == {FUNCTION_PAIRS[i][2] : i \in DOMAIN FUNCTION_PAIRS} \cup {"open_stage"}
file_path_funcs == (ToolFunctions \cup {"create_stage"}) \ stage_id_funcs

ParamNames(f) == {Parameters(f)[i].name : i \in DOMAIN Parameters(f)}
ParamInfo(f, name) ==
    CHOOSE q \in {Parameters(f)[i] : i \in DOMAIN Parameters(f)} : q.name = name

\* every tool function is annotated "-> str"
ReturnType(f) == "str"

Issue(kind, f, param) == [kind |-> kind, f |-> f, param |-> param]

\* everything but check_integrity.py's state
servervars == <<_stages, _stage_file_paths, _stage_access_times, _stage_modified,
                _lock, now, next_id, unloaded, pc, frame, lastOp, toolResult, stage_cache,
                layer, disk, next_edit, stage_access_times, stage_modified>>

\* the for loop over FUNCTION_PAIRS goes to its next pair, or ends
NextPair(i, issues) ==
    IF i < Len(FUNCTION_PAIRS)
    THEN [pair |-> i + 1, phase |-> "start", idx |-> 0, issues |-> issues]
    ELSE [pair |-> 0, phase |-> "special", idx |-> 0, issues |-> issues]

\* main() calls compare_functions
compare_functions_begin ==
    /\ integrity.phase = "idle"
    /\ integrity' = [pair |-> 1, phase |-> "start", idx |-> 0, issues |-> {}]
    /\ UNCHANGED servervars

\* lines 111-128: both functions must exist (else the pair is skipped) and
\* must have the file_path and the stage_id parameter
compare_functions_pair ==
    /\ integrity.phase = "start"
    /\ LET fp == FUNCTION_PAIRS[integrity.pair][1]
           sid == FUNCTION_PAIRS[integrity.pair][2]
       IN IF fp \notin file_path_funcs
          THEN integrity' = NextPair(integrity.pair,
                                integrity.issues \cup {Issue("not_found", fp, "")})
          ELSE IF sid \notin stage_id_funcs
          THEN integrity' = NextPair(integrity.pair,
                                integrity.issues \cup {Issue("not_found", sid, "")})
          ELSE integrity' =
                [integrity EXCEPT
                    !.phase = "path_params",
                    !.idx = 1,
                    !.issues = @ \cup (IF "file_path" \in ParamNames(fp) THEN {}
                                       ELSE {Issue("no_file_path", fp, "")})
                                 \cup (IF "stage_id" \in ParamNames(sid) THEN {}
                                       ELSE {Issue("no_stage_id", sid, "")})]
    /\ UNCHANGED servervars

\* lines 131-147, one pass of the loop over the path-based function's
\* parameters: the parameter must exist in the handle-based function with
\* the same type, and with the same default when both have one
compare_functions_path_param ==
    /\ integrity.phase = "path_params"
    /\ LET fp == FUNCTION_PAIRS[integrity.pair][1]
           sid == FUNCTION_PAIRS[integrity.pair][2]
           param_info == Parameters(fp)[integrity.idx]
           found ==
               IF param_info.name = "file_path" THEN {}
               ELSE IF param_info.name \notin ParamNames(sid)
               THEN {Issue("missing", sid, param_info.name)}
               ELSE LET stage_id_param_info == ParamInfo(sid, param_info.name)
                    IN (IF param_info.type # stage_id_param_info.type
                        THEN {Issue("type", sid, param_info.name)} ELSE {})
                       \cup
                       (IF /\ param_info.default # "<none>"
                           /\ stage_id_param_info.default # "<none>"
                           /\ param_info.default # stage_id_param_info.default
                        THEN {Issue("default", sid, param_info.name)} ELSE {})
       IN integrity' =
            IF integrity.idx < Len(Parameters(fp))
            THEN [integrity EXCEPT !.idx = @ + 1, !.issues = @ \cup found]
            ELSE [integrity EXCEPT !.phase = "id_params", !.idx = 1,
                                   !.issues = @ \cup found]
    /\ UNCHANGED servervars

\* lines 150-155, one pass of the loop over the handle-based function's
\* parameters: none but stage_id may be missing from the path-based function
compare_functions_id_param ==
    /\ integrity.phase = "id_params"
    /\ LET fp == FUNCTION_PAIRS[integrity.pair][1]
           sid == FUNCTION_PAIRS[integrity.pair][2]
           param_name == Parameters(sid)[integrity.idx].name
           found == IF param_name # "stage_id" /\ param_name \notin ParamNames(fp)
                    THEN {Issue("extra", sid, param_name)} ELSE {}
       IN integrity' =
            IF integrity.idx < Len(Parameters(sid))
            THEN [integrity EXCEPT !.idx = @ + 1, !.issues = @ \cup found]
            ELSE [integrity EXCEPT !.phase = "return_type", !.idx = 0,
                                   !.issues = @ \cup found]
    /\ UNCHANGED servervars

\* lines 158-159: the return types, then the next pair
compare_functions_return_type ==
    /\ integrity.phase = "return_type"
    /\ LET fp == FUNCTION_PAIRS[integrity.pair][1]
           sid == FUNCTION_PAIRS[integrity.pair][2]
       IN integrity' = NextPair(integrity.pair,
                          integrity.issues \cup
                              (IF ReturnType(fp) # ReturnType(sid)
                               THEN {Issue("return_type", sid, "")} ELSE {}))
    /\ UNCHANGED servervars

\* lines 162-181, SPECIAL_CASES: create_stage / open_stage, which must have
\* the parameters create_if_missing and file_path and the return type of
\* create_stage; then "return issues"
compare_functions_special_cases ==
    /\ integrity.phase = "special"
    /\ LET found ==
            IF "create_stage" \notin file_path_funcs
            THEN {Issue("not_found", "create_stage", "")}
            ELSE IF "open_stage" \notin stage_id_funcs
            THEN {Issue("not_found", "open_stage", "")}
            ELSE (IF "create_if_missing" \in ParamNames("open_stage") THEN {}
                  ELSE {Issue("missing", "open_stage", "create_if_missing")})
                 \cup
                 (IF "file_path" \in ParamNames("open_stage") THEN {}
                  ELSE {Issue("missing", "open_stage", "file_path")})
                 \cup
                 (IF ReturnType("create_stage") = ReturnType("open_stage") THEN {}
                  ELSE {Issue("return_type", "open_stage", "")})
       IN integrity' = [integrity EXCEPT !.phase = "done", !.issues = @ \cup found]
    /\ UNCHANGED servervars

IntegrityNext ==
    \/ compare_functions_begin
    \/ compare_functions_pair
    \/ compare_functions_path_param
    \/ compare_functions_id_param
    \/ compare_functions_return_type
    \/ compare_functions_special_cases

IntegritySpec == Init /\ [][IntegrityNext]_vars

\* ------------------------------------------------------------- claims

\* C1 (cap invariant): when register_stage or perform_cache_cleanup has
\* returned, the registry holds at most max_cache_size entries.
C1_CapInvariant ==
    (lastOp.op \in {"register_stage", "perform_cache_cleanup"} /\ lastOp.ret # "blocked")
        => Cardinality(DOMAIN _stages) <= max_cache_size

\* a registration has returned with the registry filled to the cap, after
\* earlier handles were closed
C1_Witness ==
    /\ lastOp.op = "register_stage"
    /\ lastOp.ret = "id"
    /\ Cardinality(DOMAIN _stages) = max_cache_size
    /\ next_id > max_cache_size

\* C2 (register terminates): no thread waits for the registry lock while it
\* holds that lock itself, so every register_stage call returns.
C2_RegisterTerminates ==
    \A t \in Threads : ~(pc[t] = "reg_cleanup" /\ _lock = t)

\* C3 (no silent loss), as claimed: every removal of a modified entry was
\* preceded by a flush attempt, whatever save_if_modified was.
C3_NoSilentLoss_Claimed ==
    (lastOp.op = "unregister_stage" /\ lastOp.ret = "True" /\ lastOp.was_modified)
        => lastOp.flush # "none"

\* C3 as amended: every removal of a modified entry with save_if_modified
\* true (which is how the eviction loop calls unregister_stage) was preceded
\* by a flush attempt.
C3_NoSilentLoss ==
    (lastOp.op = "unregister_stage" /\ lastOp.ret = "True" /\ lastOp.was_modified
        /\ lastOp.sim)
        => lastOp.flush # "none"

\* a modified entry was removed by close_stage_by_id with save_if_modified true
C3_Witness ==
    /\ lastOp.op = "unregister_stage"
    /\ lastOp.ret = "True"
    /\ lastOp.was_modified
    /\ lastOp.sim
    /\ toolResult.tool = "close_stage_by_id"
    /\ lastOp.h \notin DOMAIN _stages

\* The sets an eviction may start from and remove.
OverCap == {L \in SUBSET Ids : Cardinality(L) > max_cache_size}
Range(q) == {q[i] : i \in 1..Len(q)}

\* C4 (LRU correctness): once the registry holds the entries L, more than
\* max_cache_size and with distinct access times, of which R are the oldest
\* Cardinality(L) - max_cache_size, the eviction leaves exactly L \ R.
C4_LRUCorrectness ==
    \A L \in OverCap :
        \A R \in {X \in SUBSET L : Cardinality(X) = Cardinality(L) - max_cache_size} :
            (/\ DOMAIN _stages = L
             /\ \A a, b \in L : a # b => _stage_access_times[a] # _stage_access_times[b]
             /\ Range(stages_to_remove) = R)
                ~> (DOMAIN _stages = L \ R)

StrictlyOlder(h) ==
    {k \in DOMAIN _stage_access_times : _stage_access_times[k] < _stage_access_times[h]}

HandleOps == {"get_stage", "get_stage_path", "mark_as_modified", "save_stage",
              "unregister_stage"}

\* C6 (handle isolation): a call on a handle that is not registered returns
\* None (get_stage, get_stage_path) or False (mark_as_modified, save_stage,
\* unregister_stage) and changes nothing in the registry.
C6_HandleIsolation ==
    [][(lastOp'.op \in HandleOps /\ ~lastOp'.was_live)
        => /\ lastOp'.ret = (IF lastOp'.op \in {"get_stage", "get_stage_path"}
                             THEN "None" ELSE "False")
           /\ lastOp'.flush = "none"
           /\ UNCHANGED <<regvars, unloaded, next_id>>]_vars

\* save_stage was called on a handle that had been unregistered
C6_Witness ==
    /\ lastOp.op = "save_stage"
    /\ ~lastOp.was_live
    /\ lastOp.h \in unloaded
    /\ lastOp.ret = "False"

\* C7 (flush failure does not block removal): when the flush raises inside
\* unregister_stage, the entry is removed from the four maps, the document is
\* unloaded and unregister_stage returns True.
C7_FlushFailureRemoves ==
    (lastOp.op = "unregister_stage" /\ lastOp.flush = "failed")
        => /\ lastOp.h \notin DOMAIN _stages
           /\ lastOp.h \notin DOMAIN _stage_file_paths
           /\ lastOp.h \notin DOMAIN _stage_access_times
           /\ lastOp.h \notin DOMAIN _stage_modified
           /\ lastOp.h \in unloaded
           /\ lastOp.ret = "True"

C7_Witness ==
    /\ lastOp.op = "unregister_stage"
    /\ lastOp.flush = "failed"
    /\ lastOp.was_modified

\* C8 (save flushes iff modified): save_stage invokes the flush exactly when
\* the handle is registered and modified; otherwise it returns False.
C8_SaveFlushesIffModified ==
    lastOp.op = "save_stage"
        => /\ (lastOp.flush # "none") <=> (lastOp.was_live /\ lastOp.was_modified)
           /\ ~(lastOp.was_live /\ lastOp.was_modified) => lastOp.ret = "False"

\* save_stage on a registered entry that was not modified
C8_Witness ==
    /\ lastOp.op = "save_stage"
    /\ lastOp.was_live
    /\ ~lastOp.was_modified
    /\ lastOp.flush = "none"

\* C9 (save outcome): a save_stage whose flush succeeds returns True and
\* leaves modified false; one whose flush raises returns False and leaves the
\* entry registered and modified; nothing else in the registry changes.
C9_SaveOutcome ==
    [][lastOp'.op = "save_stage"
        => /\ lastOp'.flush = "ok"
                => /\ lastOp'.ret = "True"
                   /\ lastOp'.h \in DOMAIN _stage_modified'
                   /\ ~_stage_modified'[lastOp'.h]
           /\ lastOp'.flush = "failed"
                => /\ lastOp'.ret = "False"
                   /\ lastOp'.h \in DOMAIN _stages'
                   /\ _stage_modified'[lastOp'.h]
           /\ UNCHANGED <<_stages, _stage_file_paths, _stage_access_times, unloaded>>
           /\ DOMAIN _stage_modified' = DOMAIN _stage_modified
           /\ \A k \in DOMAIN _stage_modified \ {lastOp'.h} :
                   _stage_modified'[k] = _stage_modified[k]]_vars

\* a flush failed in save_stage while another modified entry was registered
C9_Witness ==
    /\ lastOp.op = "save_stage"
    /\ lastOp.flush = "failed"
    /\ \E k \in DOMAIN _stage_modified : k # lastOp.h /\ _stage_modified[k]

\* C10 (an explicit save surfaces a flush failure): the envelope the save tool
\* returns after a failed flush differs from the one it returns for an entry
\* that was not modified.
C10_SaveSurfacesFlushFailure ==
    (toolResult.tool = "save_stage" /\ toolResult.cause = "flush_failed")
        => Envelope(toolResult) # Envelope(save_stage_failure(toolResult.h, "not_modified"))

\* the handles register_stage has returned so far
Issued == 1..next_id

\* C11 (handle uniqueness): the four maps have the same keys, so each live
\* handle has exactly one entry, and the handle a register_stage call creates
\* was never issued before, also when earlier handles were unregistered.
C11_HandleUniqueness ==
    [][/\ DOMAIN _stage_file_paths' = DOMAIN _stages'
       /\ DOMAIN _stage_access_times' = DOMAIN _stages'
       /\ DOMAIN _stage_modified' = DOMAIN _stages'
       /\ lastOp'.op = "register_stage"
            => /\ lastOp'.h \notin Issued
               /\ lastOp'.h \notin DOMAIN _stages
               /\ lastOp'.h \in DOMAIN _stages'
               /\ DOMAIN _stages' = DOMAIN _stages \cup {lastOp'.h}]_vars

\* a registration returned after an earlier handle had been unregistered
C11_Witness ==
    /\ lastOp.op = "register_stage"
    /\ lastOp.ret = "id"
    /\ unloaded # {}
    /\ lastOp.h \in DOMAIN _stages
    /\ lastOp.h \notin unloaded

\* C12 (HandleNotFound envelope): a handle-based tool call whose handle is not
\* in the registry answers ok = false, error_code "HandleNotFound" and the
\* message "Stage with ID <x> not found", and changes no registry entry.
C12_HandleNotFoundEnvelope ==
    [][toolResult'.cause = "not_found"
        => /\ ~toolResult'.ok
           /\ toolResult'.error_code = "HandleNotFound"
           /\ toolResult'.message = "Stage with ID <stage_id> not found"
           /\ UNCHANGED regvars]_vars

\* the positions of a thread inside a tool call
ToolPositions == {"open_scan", "open_reg", "dp_define", "dp_mark", "save_save", "save_path",
                  "close_unreg", "reg_cleanup", "cleanup_unreg"}

\* C13 (every tool outcome is a well-formed envelope): every tool call that
\* was begun returns, and what it returns is a success with ok = true or a
\* failure with ok = false, a message, a non-empty error_code and an empty
\* data map.
C13_WellFormedEnvelope ==
    /\ [](toolResult.tool # "none"
            => /\ toolResult.message # ""
               /\ ~toolResult.ok => (toolResult.error_code # "" /\ toolResult.data = {}))
    /\ \A t \in ToolThreads : (pc[t] \in ToolPositions) ~> (pc[t] = "idle")

\* the threads that are in the middle of reading one of the registry's maps
\* outside a registry method
MapReaders == {t \in Threads : pc[t] = "open_scan"}

\* C14 (single-lock discipline): a thread that reads or iterates one of the
\* registry's maps holds the registry lock, so no other thread is inside a
\* registry operation meanwhile.
C14_SingleLockDiscipline ==
    \A t \in MapReaders : _lock = t

\* C15 (the maintenance loop survives pass failures): when a call of a pass
\* has raised, the loop is at its next sleep and pass with the lock free; the
\* maintenance thread never ends.
C15_LoopSurvives ==
    /\ pc[Maint] # "m_dead"
    /\ lastOp.ret = "raised" => (pc[Maint] = "m_cleanup" /\ _lock = NoThread)

\* get_stats raised in a pass while the registry held an entry
C15_Witness ==
    /\ lastOp.op = "get_stats"
    /\ lastOp.ret = "raised"
    /\ pc[Maint] = "m_cleanup"
    /\ DOMAIN _stages # {}

\* C16 (every maintenance pass completes and evicts to the cap): a pass that
\* starts while the registry holds more than max_cache_size entries, or while
\* a register_stage is in progress, finishes its cleanup with the registry at
\* the cap and goes on to get_stats.
C16_PassCompletes ==
    (/\ pc[Maint] = "m_cleanup"
     /\ (Cardinality(DOMAIN _stages) > max_cache_size \/ _lock # NoThread))
        ~> (/\ pc[Maint] = "m_stats"
            /\ lastOp.op = "perform_cache_cleanup"
            /\ Cardinality(DOMAIN _stages) <= max_cache_size)

\* the documents stage_cache holds
Cached == {stage_cache[p] : p \in DOMAIN stage_cache}

\* C17 (path-based calls are transient): when a path-based tool call has
\* returned, the document it opened is held neither by the registry nor by
\* stage_cache.
C17_PathCallsTransient ==
    (toolResult.tool = "analyze_stage" /\ toolResult.cause = "opened")
        => /\ toolResult.h \notin Cached
           /\ \A k \in DOMAIN _stages : _stages[k] # toolResult.h

\* C18 (exclusive ownership): a document that was unloaded when its entry was
\* unregistered is not held by stage_cache, and no path-based call is handed it.
C18_ExclusiveOwnership ==
    /\ Cached \cap unloaded = {}
    /\ toolResult.tool = "analyze_stage" => toolResult.h \notin unloaded

\* C19 (dual-API parameter parity): for every pair of FUNCTION_PAIRS the
\* handle-based function has the parameters of the path-based one with
\* file_path replaced by stage_id: same names, types and defaults, none extra
\* and none missing.
C19_ParameterParity ==
    integrity.pair \in DOMAIN FUNCTION_PAIRS
        => AsPathParameters(FUNCTION_PAIRS[integrity.pair][2])
                = PathParameters(FUNCTION_PAIRS[integrity.pair][1])

\* C20 (dual-API result parity): for every pair, as the pairs are gone
\* through, the success envelopes of the path-based and of the handle-based
\* function have data maps with the same set of keys.
C20_ResultParity ==
    integrity.pair \in DataPairs
        => SuccessData(FUNCTION_PAIRS[integrity.pair][2])
                = SuccessData(FUNCTION_PAIRS[integrity.pair][1])

\* C21 (stats are an exact snapshot): the dict get_stats returns has
\* total_stages equal to the number of live entries, stage_ids equal to the
\* set of live handles, modified_stages equal to the number of live entries
\* flagged modified and max_cache_size equal to the cap; and when nothing but
\* n <= cap registrations happened to the entries, total_stages is n and
\* every issued handle is listed.
C21_StatsSnapshot ==
    lastOp.op = "get_stats" =>
        /\ lastOp.stats.total_stages = Cardinality(Live)
        /\ lastOp.stats.stage_ids = Live
        /\ lastOp.stats.modified_stages =
                Cardinality({h \in Live : h \in DOMAIN _stage_modified /\ _stage_modified[h]})
        /\ lastOp.stats.max_cache_size = max_cache_size
        /\ (unloaded = {} /\ next_id <= max_cache_size) =>
                /\ lastOp.stats.total_stages = next_id
                /\ Issued \subseteq lastOp.stats.stage_ids

\* get_stats answered with two live entries, one modified and one not
C21_Witness ==
    /\ lastOp.op = "get_stats"
    /\ lastOp.stats.total_stages = 2
    /\ lastOp.stats.modified_stages = 1
    /\ unloaded = {}

\* the entry of handle h: its document, path, lastAccess and modified flag
Entry(h) == <<_stages[h], _stage_file_paths[h], _stage_access_times[h], _stage_modified[h]>>

\* C22 (unregister/close removes exactly one entry): unregister_stage on a
\* live handle returns True (the close tool: a success envelope), lowers the
\* number of entries by one, makes the handle absent from the four maps and
\* leaves every other entry as it was.
C22_UnregisterRemovesOne ==
    [][(lastOp'.op = "unregister_stage" /\ lastOp'.was_live)
        => /\ lastOp'.ret = "True"
           /\ toolResult'.tool = "close_stage_by_id" => toolResult'.ok
           /\ Cardinality(DOMAIN _stages') = Cardinality(DOMAIN _stages) - 1
           /\ lastOp'.h \notin DOMAIN _stages' \cup DOMAIN _stage_file_paths'
                            \cup DOMAIN _stage_access_times' \cup DOMAIN _stage_modified'
           /\ \A k \in Live \ {lastOp'.h} : k \in DOMAIN _stages' /\ Entry(k)' = Entry(k)]_vars

\* the close tool closed one of two entries; the other one is modified
C22_Witness ==
    /\ lastOp.op = "unregister_stage"
    /\ lastOp.was_live
    /\ toolResult.tool = "close_stage_by_id"
    /\ toolResult.ok
    /\ \E k \in Live : _stage_modified[k]

C24_MarkModified ==
    [][lastOp'.op = "mark_as_modified"
        => /\ IF lastOp'.was_live
              THEN /\ lastOp'.ret = "True"
                   /\ lastOp'.h \in DOMAIN _stage_modified'
                   /\ _stage_modified'[lastOp'.h]
              ELSE /\ lastOp'.ret = "False"
                   /\ _stage_modified' = _stage_modified
           /\ DOMAIN _stage_modified' = DOMAIN _stage_modified
           /\ \A k \in DOMAIN _stage_modified \ {lastOp'.h} :
                    _stage_modified'[k] = _stage_modified[k]
           /\ UNCHANGED <<_stages, _stage_file_paths, _stage_access_times>>]_vars

\* an unmodified entry was marked while another entry stays unmodified
C24_Witness ==
    /\ lastOp.op = "mark_as_modified"
    /\ lastOp.was_live
    /\ ~lastOp.was_modified
    /\ lastOp.ret = "True"
    /\ \E k \in Live \ {lastOp.h} : ~_stage_modified[k]

\* C25 (validation of mass): a handle-based add-rigid-body call whose mass is
\* negative or zero returns a failure envelope, changes nothing in the
\* document and does not set the entry's modified flag.
C25_MassValidation ==
    [][\A t \in ToolThreads :
        (pc[t] \in {"rb_add", "rb_mark"} /\ pc'[t] # pc[t] /\ frame[t].mass <= 0)
        => /\ layer' = layer
           /\ toolResult'.tool = "add_rigid_body_by_id" => ~toolResult'.ok
           /\ frame[t].h \in DOMAIN _stage_modified'
                => _stage_modified'[frame[t].h] = _stage_modified[frame[t].h]]_vars

\* C26 (source not found; entries of open and create): an open_stage on a
\* path that does not exist, creation not requested, returns a failure
\* envelope and adds no registry entry and no path-cache entry; every open or
\* create call that returns a failure envelope leaves the set of entries as it
\* was; every one that returns success has added exactly one entry, whose
\* modified flag is false.
C26_OpenCreateEntries ==
    [][toolResult'.tool \in {"open_stage", "create_stage"}
        => /\ toolResult'.cause = "file_not_found"
                => ~toolResult'.ok /\ UNCHANGED <<regvars, stage_cache>>
           /\ ~toolResult'.ok => DOMAIN _stages' = DOMAIN _stages
           /\ toolResult'.ok
                => \E h \in Ids :
                        /\ h \notin DOMAIN _stages
                        /\ DOMAIN _stages' = DOMAIN _stages \cup {h}
                        /\ _stage_modified'[h] = FALSE]_vars

\* C27 (administrative status): get_registry_status returns what the
\* registry's get_stats returned, which is the registry's statistics;
\* get_server_status returns the uptime together with the registry's stats:
\* the number of registry entries and the registry's cap.
C27_StatusReports ==
    [][/\ lastOp'.op = "get_stats" => lastOp'.stats = Stats
       /\ toolResult'.tool = "get_registry_status"
            => /\ toolResult'.ok
               /\ toolResult'.report.uptime = now' - server_start_time
               /\ \E t \in ToolThreads :
                    toolResult'.report.stats =
                        IF pc[t] = "idle" THEN lastOp'.stats ELSE frame[t].stats
       /\ toolResult'.tool = "get_server_status"
            => /\ toolResult'.ok
               /\ toolResult'.report.uptime = now' - server_start_time
               /\ toolResult'.report.cache.stages_cached = Stats'.total_stages
               /\ toolResult'.report.cache.max_cache_size = Stats'.max_cache_size]_vars

C29_NoLostUpdate ==
    [][(toolResult'.tool \in {"define_prim", "add_rigid_body_by_id"} /\ toolResult'.ok)
        => /\ lastOp'.op = "mark_as_modified"
           /\ lastOp'.ret = "True"
           /\ toolResult'.h \in DOMAIN _stages'
           /\ _stage_modified'[toolResult'.h]]_vars

\* C30 (every change is tracked): when a handle-based tool call that changed
\* the in-memory document of an entry returns and the entry is live, the
\* entry's modified flag is true, also when the call returns a failure
\* envelope after a partial change.
C30_ChangeTracked ==
    [][(/\ toolResult'.tool \in {"define_prim", "add_rigid_body_by_id"}
        /\ toolResult'.cause \in {"defined", "added", "raised_after_change"}
        /\ toolResult'.h \in DOMAIN _stages')
        => _stage_modified'[toolResult'.h]]_vars

\* C31 (the modified flag is cleared by every successful flush): after a
\* successful flush of an entry's document, through save_stage or through a
\* handle-based tool that marks the entry and then saves the root layer
\* itself, the entry's modified flag is false.
C31_FlushClearsFlag ==
    [][/\ (lastOp'.op = "save_stage" /\ lastOp'.flush = "ok"
            /\ lastOp'.h \in DOMAIN _stage_modified')
            => ~_stage_modified'[lastOp'.h]
       /\ (toolResult'.tool = "create_mesh_by_id" /\ toolResult'.cause = "saved"
            /\ toolResult'.h \in DOMAIN _stage_modified')
            => ~_stage_modified'[toolResult'.h]]_vars

\* C32 (map consistency): in every state in which no thread is inside a
\* registry operation, under every interleaving of register_stage, get_stage,
\* mark_as_modified, save_stage, unregister_stage and maintenance passes, the
\* four registry maps have the same key set.
C32_MapConsistency ==
    _lock = NoThread
        => /\ DOMAIN _stage_file_paths = DOMAIN _stages
           /\ DOMAIN _stage_access_times = DOMAIN _stages
           /\ DOMAIN _stage_modified = DOMAIN _stages

\* the lock is free, the maintenance thread runs, and the registry holds an
\* entry that was marked modified after another entry had been unregistered
C32_Witness ==
    /\ _lock = NoThread
    /\ pc[Maint] # "m_off"
    /\ unloaded # {}
    /\ \E h \in DOMAIN _stages : _stage_modified[h]
    /\ Cardinality(DOMAIN _stages) = max_cache_size

\* C33 (a freshly registered handle is live): when register_stage has
\* inserted handle h, h is in the registry with modified = false, and the
\* eviction that this registration triggers does not select h: h is not among
\* sorted_ids[:num_to_remove].
C33_FreshHandleLive ==
    lastOp.op = "register_stage"
        => /\ lastOp.h \in DOMAIN _stages
           /\ lastOp.h \in DOMAIN _stage_modified
           /\ ~_stage_modified[lastOp.h]
           /\ lastOp.h \notin Range(stages_to_remove)

\* register_stage returned a handle while the registry was full of entries
\* with a more recent lastAccess than the clock's origin
C33_Witness ==
    /\ lastOp.op = "register_stage"
    /\ lastOp.ret = "id"
    /\ Cardinality(DOMAIN _stages) = max_cache_size
    /\ \A k \in DOMAIN _stage_access_times : _stage_access_times[k] > 0

\* C34 (unregister without saving): unregister_stage with save_if_modified
\* false invokes no flush, and unregister_stage on an entry whose modified
\* flag is false invokes no flush whatever save_if_modified is: no file is
\* written; if the handle was live the entry is removed and True is returned.
C34_UnregisterWithoutSaving ==
    [][(lastOp'.op = "unregister_stage" /\ (~lastOp'.sim \/ ~lastOp'.was_modified))
        => /\ lastOp'.flush = "none"
           /\ disk' = disk
           /\ lastOp'.was_live
                => /\ lastOp'.ret = "True"
                   /\ lastOp'.h \notin DOMAIN _stages']_vars

\* a modified entry was unregistered with save_if_modified false
C34_Witness ==
    /\ lastOp.op = "unregister_stage"
    /\ ~lastOp.sim
    /\ lastOp.was_live
    /\ lastOp.was_modified
    /\ lastOp.flush = "none"
    /\ lastOp.ret = "True"
    /\ lastOp.h \notin DOMAIN _stages

\* C35 (opening an open path again is idempotent): an open_stage on a path
\* whose stage was opened before and is still registered succeeds with that
\* stage's handle and cached = true and adds no registry entry, whether the
\* path is spelled relative or absolute.
C35_OpenIdempotent ==
    [][\A t \in ToolThreads :
        LET abs_path == AbsPath(frame[t].file_path)
        IN (/\ pc[t] \in {"open_scan", "open_reg"}
            /\ toolResult'.tool = "open_stage"
            /\ toolResult'.ok
            /\ abs_path \in DOMAIN stage_cache
            /\ stage_cache[abs_path] \in DOMAIN _stages)
           => /\ toolResult'.cause = "cached"
              /\ toolResult'.h = stage_cache[abs_path]
              /\ DOMAIN _stages' = DOMAIN _stages]_vars

\* C36 (path cache cap): each pass of cleanup_stage_cache returns normally
\* and leaves at most MAX_CACHE_SIZE stages in stage_cache; the stages it
\* removed were accessed no later than the ones it kept, and the file of
\* every modified stage it removed has the stage's content.
C36_PathCacheCap ==
    [][lastOp'.op = "cleanup_stage_cache"
        => LET removed == DOMAIN stage_cache \ DOMAIN stage_cache'
               time(p) == LET i == CHOOSE i \in 1..Len(stage_access_times) :
                                        stage_access_times[i][1] = p
                          IN stage_access_times[i][2]
               timed == {stage_access_times[i][1] : i \in 1..Len(stage_access_times)}
           IN /\ lastOp'.ret = "None"
              /\ Cardinality(DOMAIN stage_cache') <= MAX_CACHE_SIZE
              /\ \A p \in removed \cap timed, q \in DOMAIN stage_cache' \cap timed :
                    time(p) <= time(q)
              /\ \A p \in removed :
                    (p \in DOMAIN stage_modified /\ stage_modified[p])
                        => disk'[p] = layer[p]]_vars

\* C37 (only get and register touch lastAccess): get_stage_path, is_modified,
\* mark_as_modified, save_stage, get_stats and get_all_stage_ids leave the
\* lastAccess of every entry unchanged; the lastAccess of an entry changes
\* only in a get_stage that finds it, and a lastAccess is added only by the
\* register_stage of that entry.
C37_LastAccessFrame ==
    [][/\ lastOp'.op \in {"get_stage_path", "is_modified", "mark_as_modified", "save_stage",
                          "get_stats", "get_all_stage_ids"}
            => _stage_access_times' = _stage_access_times
       /\ \A k \in DOMAIN _stage_access_times \cap DOMAIN _stage_access_times' :
            _stage_access_times'[k] # _stage_access_times[k]
                => lastOp'.op = "get_stage" /\ lastOp'.h = k /\ lastOp'.ret = "stage"
       /\ \A k \in DOMAIN _stage_access_times' \ DOMAIN _stage_access_times :
                lastOp'.op = "register_stage" /\ lastOp'.h = k]_vars

\* save_stage flushed an entry whose lastAccess is older than the clock
C37_Witness ==
    /\ lastOp.op = "save_stage"
    /\ lastOp.ret = "True"
    /\ lastOp.h \in DOMAIN _stage_access_times
    /\ _stage_access_times[lastOp.h] < now

\* C38 (registry status is a consistent snapshot): the result of
\* get_registry_status lists in stage_details exactly the handles of
\* stage_ids, each with a file_path that is not None, and as many details
\* with modified = true as modified_stages says.
C38_StatusSnapshot ==
    toolResult.tool = "get_registry_status"
        => /\ {d.stage_id : d \in toolResult.report.stage_details}
                = toolResult.report.stats.stage_ids
           /\ \A d \in toolResult.report.stage_details : d.file_path # "None"
           /\ Cardinality({d \in toolResult.report.stage_details : d.modified})
                = toolResult.report.stats.modified_stages

====
